---- MODULE Spec2Model ----
(***************************************************************************)
(* VideoTranslator: the checkpoint store (app/utils/checkpoint.py) and the *)
(* stage orchestrator (app/gui/improved_processing.py).                    *)
(*                                                                         *)
(* Time is counted in days.  A video file is a path with a size and a      *)
(* modification time; a checkpoint file is named after the digest of the   *)
(* string path ++ str(size) ++ str(mtime).  The digest is modelled by the  *)
(* string that is fed to it (md5 is taken to be injective).                *)
(***************************************************************************)
EXTENDS Integers, Sequences, FiniteSets, TLC

\* ----------------------------------------------------------------- bounds
MaxNow == 14
TickDays == 7
MaxRuns == 2
MaxSegments == 3
MaxOps == 3

\* -------------------------------------------------------------- constants
\* checkpoint.py:224 (7 * 24 * 3600 seconds)
CheckpointMaxAge == 7

\* checkpoint.py:61-66
STAGES == <<"audio_extraction", "speech_recognition", "text_translation",
            "subtitle_generation">>

StageNames == {STAGES[i] : i \in 1..Len(STAGES)}

StageIndex(s) == CHOOSE i \in 1..Len(STAGES) : STAGES[i] = s

\* ------------------------------------------------------------ video files
\* The videos of the model.  "v" with size 11 and "v1" with size 1 feed the
\* same string to the digest when their modification times agree.
Paths == {"v", "v1"}
Sizes == {1, 11}
Mtimes == {2, 3}

NoFile == [exists |-> FALSE, size |-> 0, mtime |-> 0]

FileMetas == [exists : {TRUE}, size : Sizes, mtime : Mtimes]

\* str() of the numbers the model uses
StrOf(n) == CASE n = 0 -> "0" [] n = 1 -> "1" [] n = 2 -> "2" [] n = 3 -> "3"
              [] n = 11 -> "11" [] OTHER -> "?"

VARIABLES
    fs,          \* path -> the video file's metadata (os.stat), or NoFile
    files,       \* checkpoint directory: file name (digest) -> content
    now,         \* time.time(), in days
    ret,         \* the value the last checkpoint-store call returned
    ops,         \* number of checkpoint-store calls made by the application
    run,         \* number of pipeline runs started
    pc,          \* the orchestrator thread's position in run()
    stage,       \* the stage (1..4) the orchestrator is at
    completed_stages, \* run(): the completed list loaded at start
    locals,      \* run(): audio_path, recognition_result, ...
    cancel_requested, \* threading.Event
    cancel_pc,   \* position of the GUI thread inside cancel()
    executor,    \* "open" | "shutdown"
    task,        \* the pool thread running the submitted stage call
    future,      \* the Future the orchestrator waits on
    events,      \* terminal signals emitted by this run: finished / error
    outcome,     \* how the run ended
    hist,        \* history of this run (observation only)
    world,       \* the fixed behaviour of the external collaborators
    config,      \* RetryConfig of the decorated operation
    retry,       \* the wrapper of retry_with_config: loop position and history
    max_memory_size,  \* TranslationCache: capacity of the in-memory tier
    _memory_cache,    \* TranslationCache: key -> TranslationResult
    _access_order,    \* TranslationCache: keys, least recently used first
    translations,     \* the SQLite table: hash -> row
    cached,      \* the last cache call: its arguments, result and evictions
    services,    \* TranslationManager: the names of the registered services
    service_priority, \* TranslationManager: the order the services are tried in
    mgr          \* translate / translate_batch: position, locals and history

vars == <<fs, files, now, ret, ops, run, pc, stage, completed_stages, locals,
          cancel_requested, cancel_pc, executor, task, future, events,
          outcome, hist, world, config, retry, max_memory_size,
          _memory_cache, _access_order, translations, cached, services,
          service_priority, mgr>>

\* the variables of one pipeline run
runVars == <<run, pc, stage, completed_stages, locals, cancel_requested,
             cancel_pc, executor, task, future, events, outcome, hist>>

\* the variables only the application's direct store calls change
appVars == <<ret, ops>>

\* the variables of one decorated call (app/utils/recovery_manager.py)
retryVars == <<config, retry>>

\* the variables of the translation cache (app/core/translation.py)
cacheVars == <<max_memory_size, _memory_cache, _access_order, translations,
               cached>>

\* the variables of the utilities the pipeline model leaves alone
\* the variables of the translation manager (app/core/translation.py)
mgrVars == <<services, service_priority, mgr>>

libVars == <<retryVars, cacheVars, mgrVars>>

\* ------------------------------------------------------------- payloads
\* Every value a stage passes on has one shape: kind, the video it was
\* derived from, the segment texts and the translated texts.  A text is a
\* number; 0 is a blank text (text.strip() is empty).
\* type is the Python type (Path, str, dict, None), what says which value it
\* is (audio, recog, trans, srt).
Val(t, w, v, s, x) == [type |-> t, what |-> w, src |-> v, segs |-> s, texts |-> x]

None == Val("None", "", "", <<>>, <<>>)

\* str(pathlib.Path) and str(str)
str(x) == IF x.type = "Path" THEN [x EXCEPT !.type = "str"] ELSE x

\* a faulty serialisation: the last element of a list is lost
serialize_lossy(obj) ==
    IF obj.type = "Path" THEN [obj EXCEPT !.type = "str"]
    ELSE IF Len(obj.segs) > 0
    THEN [obj EXCEPT !.segs = SubSeq(@, 1, Len(@) - 1)]
    ELSE obj

\* checkpoint.py:19-28: Path objects become strings, everything else is kept
serialize_for_json(obj) ==
    IF obj.type = "Path" THEN [obj EXCEPT !.type = "str"] ELSE obj

\* ------------------------------------------------------ checkpoint store
\* checkpoint.py:74-87
_get_video_hash(video_path) ==
    IF fs[video_path].exists
    THEN video_path \o StrOf(fs[video_path].size) \o StrOf(fs[video_path].mtime)
    ELSE video_path

\* a faulty naming: one file for every video
SharedCheckpointFile(video_path) == "checkpoint_.json"

\* checkpoint.py:89-93
_get_checkpoint_file(video_path) ==
    "checkpoint_" \o _get_video_hash(video_path) \o ".json"

DefaultJob == [source_language |-> "auto", target_language |-> "zh-CN",
               whisper_model |-> "base", translation_provider |-> "openai"]

\* checkpoint.py:30-42
ProcessingCheckpoint(path, hash, job, ts, completed, data) ==
    [video_path |-> path, video_hash |-> hash, job |-> job, timestamp |-> ts,
     completed_stages |-> completed, stage_data |-> data]

EmptyDict == [k \in {} |-> None]

NoCheckpoint == ProcessingCheckpoint("", "", DefaultJob, 0, <<>>, EmptyDict)

\* A file of the checkpoint directory.  json is "ok" for a checkpoint record,
\* "bad" when json.load raises JSONDecodeError, "shape" when the JSON parses
\* but ProcessingCheckpoint(**data) raises TypeError, "undecodable" when the
\* bytes are not UTF-8 text and reading them raises UnicodeDecodeError (a
\* write cut in the middle of a character).  cp is the checkpoint.
GoodFile(cp) == [json |-> "ok", cp |-> cp]

CorruptFile == [json |-> "bad", cp |-> NoCheckpoint]

WrongShapeFile == [json |-> "shape", cp |-> NoCheckpoint]

UndecodableFile == [json |-> "undecodable", cp |-> NoCheckpoint]

Exists(name) == name \in DOMAIN files

\* dict.get(stage): the payload, or None
DictGet(data, key) == IF key \in DOMAIN data THEN data[key] ELSE None

\* dict[key] = value
DictPut(data, key, value) ==
    [k \in (DOMAIN data) \cup {key} |-> IF k = key THEN value ELSE data[k]]

Remove(fn, name) == [n \in (DOMAIN fn) \ {name} |-> fn[n]]

InSeq(x, seq) == \E i \in 1..Len(seq) : seq[i] = x

\* a faulty validation: a record of exactly the maximal age is refused
ValidateBelowMaxAge(checkpoint, video_path) ==
    /\ fs[video_path].exists
    /\ _get_video_hash(video_path) = checkpoint.video_hash
    /\ now - checkpoint.timestamp < CheckpointMaxAge

\* checkpoint.py:212-233
_validate_checkpoint(checkpoint, video_path) ==
    /\ fs[video_path].exists
    /\ _get_video_hash(video_path) = checkpoint.video_hash
    /\ ~(now - checkpoint.timestamp > CheckpointMaxAge)

\* checkpoint.py:169-210: the value load_checkpoint returns (None if absent,
\* unparseable or invalid)
load_checkpoint(video_path) ==
    LET f == _get_checkpoint_file(video_path) IN
    IF ~Exists(f) THEN NoCheckpoint
    ELSE IF files[f].json # "ok" THEN NoCheckpoint
    ELSE IF ~_validate_checkpoint(files[f].cp, video_path) THEN NoCheckpoint
    ELSE files[f].cp

\* checkpoint.py:197-207: the directory after load_checkpoint (an
\* unparseable file is deleted)
load_checkpoint_files(video_path) ==
    LET f == _get_checkpoint_file(video_path) IN
    IF Exists(f) /\ files[f].json = "bad" THEN Remove(files, f) ELSE files

IsNone(cp) == cp = NoCheckpoint

\* a faulty save: the existing record is never read, every save starts afresh
SaveAlwaysFresh(video_path, stg, data, job) ==
    LET f == _get_checkpoint_file(video_path)
        fresh == ProcessingCheckpoint(video_path, _get_video_hash(video_path),
                                      job, now, <<stg>>,
                                      DictPut(EmptyDict, stg,
                                              serialize_for_json(data)))
    IN  [n \in (DOMAIN files) \cup {f} |->
            IF n = f THEN GoodFile(fresh) ELSE files[n]]

\* checkpoint.py:95-167: the directory after save_checkpoint; reading an
\* undecodable file raises an exception the inner handler (117) does not
\* name, the outer one (165-167) returns False and nothing is written
save_checkpoint(video_path, stg, data, job) ==
    LET f == _get_checkpoint_file(video_path)
        fresh == ProcessingCheckpoint(video_path, _get_video_hash(video_path),
                                      job, now, <<>>, EmptyDict)
        checkpoint == IF Exists(f) /\ files[f].json = "ok" THEN files[f].cp
                      ELSE fresh
        done == IF InSeq(stg, checkpoint.completed_stages)
                THEN checkpoint.completed_stages
                ELSE Append(checkpoint.completed_stages, stg)
        updated == [checkpoint EXCEPT
                       !.completed_stages = done,
                       !.stage_data = DictPut(checkpoint.stage_data, stg,
                                              serialize_for_json(data)),
                       !.timestamp = now]
    IN  IF Exists(f) /\ files[f].json = "undecodable" THEN files
        ELSE [n \in (DOMAIN files) \cup {f} |->
                 IF n = f THEN GoodFile(updated) ELSE files[n]]

\* checkpoint.py:253-259
get_stage_data(video_path, stg) ==
    LET checkpoint == load_checkpoint(video_path) IN
    IF IsNone(checkpoint) THEN None
    ELSE DictGet(checkpoint.stage_data, stg)

\* a faulty clear: the file is left where it is
ClearKeepsFile(video_path) == files

\* checkpoint.py:261-271: the directory after clear_checkpoint
clear_checkpoint(video_path) ==
    LET f == _get_checkpoint_file(video_path) IN
    IF Exists(f) THEN Remove(files, f) ELSE files

\* checkpoint.py:338-364: the directory after the sweep of __init__
cleanup_corrupted_checkpoints(dir) ==
    [n \in {m \in DOMAIN dir : dir[m].json # "bad"} |-> dir[n]]

\* --------------------------------------------------- stage collaborators
\* The external stage functions are opaque: each call returns its value,
\* returns nothing usable, or raises.  What a call returns is a fixed function
\* of its input (world fixes the number of segments the recognizer finds).

\* segment i of a recognition result: its text (segment 2 is blank)
SegmentText(i) == IF i = 2 THEN 0 ELSE i

Segments(n) == [i \in 1..n |-> SegmentText(i)]

\* audio.py:83-137 extract_audio_from_video: a Path
ExtractAudio(video) == Val("Path", "audio", video.src, <<>>, <<>>)

\* speech.py:87-175 transcribe: {"text": ..., "segments": [...]}
Transcribe(audio) == Val("dict", "recog", audio.src, Segments(world.nseg), <<>>)

\* translation.py translate(text).translated_text
TranslatedText(text) == text + 10

\* subtitle.py save_to_file: the path of the subtitle file written
SaveSubtitles(translation) ==
    Val("str", "srt", translation.src, translation.segs, translation.texts)

VideoInput(video_path) == Val("str", "video", video_path, <<>>, <<>>)

\* improved_processing.py:155-162 the job parameters passed with stage 1
WorkerJob == [source_language |-> "en", target_language |-> "zh-CN",
              whisper_model |-> "base", translation_provider |-> "openai"]

\* The video the pipeline runs on.
Video == "v"

\* ------------------------------------------------------------ run state
NoTask == [pc |-> "none", stage |-> 0, i |-> 0, input |-> None, acc |-> <<>>]

NoFuture == [state |-> "none", result |-> None, exc |-> ""]

NoLocals == [audio_path |-> None, recognition_result |-> None,
             translation_result |-> None, subtitle_path |-> None,
             result |-> None, exc |-> "", msg |-> ""]

NoResult == [status |-> "none", video_path |-> "", audio_path |-> None,
             recognition_result |-> None, translation_result |-> None,
             subtitle_path |-> None, segments |-> <<>>]

Zero4 == [s \in 1..4 |-> 0]

\* found is "cleared" from the user's clear to the next run and "restart"
\* during that run
NoHist == [found |-> "none",             \* the file on disk when the run began
           loaded |-> NoCheckpoint,      \* the checkpoint loaded at start
           entered |-> Zero4,            \* calls of each *_stage method
           called |-> Zero4,             \* collaborator calls of each stage
           inputs |-> [s \in 1..4 |-> None], \* input of each *_stage call
           order |-> <<>>,               \* stages entered, in order
           finished |-> {},              \* stages completed by this run
           resumed |-> {},               \* stages taken from the checkpoint
           snap |-> EmptyDict,           \* directory when the stage was entered
           raised |-> 0,                 \* stage whose function raised
           timed_out |-> 0,              \* stage whose deadline expired
           stopped_at |-> 0,             \* stage a check found the flag set before
           seen |-> FALSE,               \* some poll has found the flag set
           after_seen |-> 0,             \* calls begun after such a poll
           late |-> 0,                   \* calls begun after the flag was set
           cancel_early |-> FALSE,       \* cancel() before stage 4 completed
           final |-> NoResult]           \* the result emitted with finished

\* improved_processing.py:416-439: the result emitted with finished
FinalResult(l) ==
    [status |-> "completed", video_path |-> Video,
     audio_path |-> l.audio_path,
     recognition_result |-> l.recognition_result,
     translation_result |-> l.translation_result,
     subtitle_path |-> l.subtitle_path,
     segments |->
        IF l.recognition_result.type = "dict"
        THEN [i \in 1..Len(l.recognition_result.segs) |->
                <<l.recognition_result.segs[i],
                  IF l.translation_result.type = "dict"
                     /\ i <= Len(l.translation_result.texts)
                  THEN l.translation_result.texts[i] ELSE -1>>]
        ELSE <<>>]

\* the local variable of run() that holds the output of stage s
LocalOf(s) == CASE s = 1 -> "audio_path" [] s = 2 -> "recognition_result"
                [] s = 3 -> "translation_result" [] OTHER -> "subtitle_path"

\* the input run() passes to the *_stage method of stage s
StageInput(s, l) == CASE s = 1 -> VideoInput(Video)
                      [] s = 2 -> l.audio_path
                      [] s = 3 -> l.recognition_result
                      [] OTHER -> l.translation_result

\* a faulty sequencing: the same stage is taken up again
AfterStageRepeat(s) == "check"

\* after stage s: the cancellation check before the next stage, or the end
AfterStage(s) == IF s < 4 THEN "between" ELSE "final"

Raise(kind, msg) == /\ pc' = "except"
                    /\ locals' = [locals EXCEPT !.exc = kind, !.msg = msg]

\* checkpoint.py:235-238
can_resume(video_path) ==
    /\ ~IsNone(load_checkpoint(video_path))
    /\ Len(load_checkpoint(video_path).completed_stages) > 0

\* a faulty scan: the first stage is named whatever the record lists
NextStageAlwaysFirst(video_path) == STAGES[1]

\* checkpoint.py:240-251: the next stage to run, "" when all are completed
get_next_stage(video_path) ==
    LET checkpoint == load_checkpoint(video_path)
        pending == {i \in 1..Len(STAGES) :
                       ~InSeq(STAGES[i], checkpoint.completed_stages)}
    IN  IF IsNone(checkpoint) THEN STAGES[1]
        ELSE IF pending = {} THEN ""
        ELSE STAGES[CHOOSE i \in pending : \A j \in pending : i <= j]

\* checkpoint.py:319-336: the summary get_recovery_info returns; NoRecovery
\* stands for None.  progress_percent is len(completed) / len(STAGES) * 100.
NoRecovery == [video_path |-> "", progress_percent |-> 0,
               completed_stages |-> <<>>, next_stage |-> "", timestamp |-> 0,
               time_ago |-> 0, can_resume |-> FALSE]

get_recovery_info(video_path) ==
    LET checkpoint == load_checkpoint(video_path)
        next_stage == get_next_stage(video_path)
    IN  IF IsNone(checkpoint) THEN NoRecovery
        ELSE [video_path |-> checkpoint.video_path,
              progress_percent |->
                  (Len(checkpoint.completed_stages) * 100) \div Len(STAGES),
              completed_stages |-> checkpoint.completed_stages,
              next_stage |-> next_stage,
              timestamp |-> checkpoint.timestamp,
              time_ago |-> now - checkpoint.timestamp,
              can_resume |-> next_stage # ""]

\* what a call of the store returned: cp for load_checkpoint, data for
\* get_stage_data, info for get_recovery_info.  hash is the fingerprint of
\* the video at the call; for the last two, cp is the record they read.
\* For save_checkpoint, stage and data are the arguments; at is the time of
\* the call.
NoReturn == [op |-> "none", path |-> "", hash |-> "", cp |-> NoCheckpoint,
             data |-> None, info |-> NoRecovery, stage |-> "", at |-> 0]

\* ------------------------------------------------------------- retry
\* app/utils/recovery_manager.py.  Delays are in whole seconds; the
\* exception classes are named by their type.
MaxAttempts == 3

ExceptionTypes ==
    {"RetryableError", "NonRetryableError", "ConnectionError", "ValueError"}

\* isinstance(exception, types): every class of the model derives from
\* Exception
IsInstance(exception, types) == "Exception" \in types \/ exception \in types

\* recovery_manager.py:27-36
RetryConfig(max_attempts, strategy, base_delay, max_delay, backoff_factor, retry_on_exceptions, should_retry) ==
    [max_attempts |-> max_attempts, strategy |-> strategy,
     base_delay |-> base_delay, max_delay |-> max_delay,
     backoff_factor |-> backoff_factor,
     retry_on_exceptions |-> retry_on_exceptions,
     should_retry |-> should_retry]

\* RetryConfig(): the defaults of the dataclass
DefaultConfig ==
    RetryConfig(3, "exponential", 1, 60, 2, {"Exception"}, "None")

\* the configurations of the model; should_retry is None or the predicate
\* lambda e: not isinstance(e, ValueError)
Configs ==
    {RetryConfig(m, s, b, d, 2, t, p) :
        m \in 0..MaxAttempts,
        s \in {"immediate", "linear", "exponential", "custom"},
        b \in {1, 2}, d \in {3, 60},
        t \in {{"Exception"}, {"ConnectionError", "NonRetryableError"}},
        p \in {"None", "not_value_error"}}

\* the predicate a configuration carries
Predicate(exception) == exception # "ValueError"

RECURSIVE Pow(_, _)
Pow(b, e) == IF e = 0 THEN 1 ELSE b * Pow(b, e - 1)

Min(a, b) == IF a < b THEN a ELSE b

\* recovery_manager.py:58-69
calculate_delay(attempt) ==
    IF config.strategy = "immediate" THEN 0
    ELSE LET delay ==
               CASE config.strategy = "linear" -> config.base_delay * attempt
                 [] config.strategy = "exponential" ->
                       config.base_delay * Pow(config.backoff_factor, attempt)
                 [] OTHER -> config.base_delay
         IN  Min(delay, config.max_delay)

\* a faulty decision: the class NonRetryableError is not looked at
ShouldRetryAnyClass(exception, attempt) ==
    IF attempt >= config.max_attempts THEN FALSE
    ELSE IF ~IsInstance(exception, config.retry_on_exceptions) THEN FALSE
    ELSE IF config.should_retry # "None" THEN Predicate(exception)
    ELSE TRUE

\* recovery_manager.py:71-88
should_retry(exception, attempt) ==
    IF attempt >= config.max_attempts THEN FALSE
    ELSE IF exception = "NonRetryableError" THEN FALSE
    ELSE IF ~IsInstance(exception, config.retry_on_exceptions) THEN FALSE
    ELSE IF config.should_retry # "None" THEN Predicate(exception)
    ELSE TRUE

\* the wrapper before its loop: attempt is the loop variable, calls counts
\* the invocations of the wrapped function, raised lists what they raised,
\* slept lists the delays passed to time.sleep, exc is what the wrapper
\* raised
NoRetry == [pc |-> "call", attempt |-> 0, calls |-> 0, raised |-> <<>>,
            slept |-> <<>>, exc |-> ""]

RetryIdle == config = DefaultConfig /\ retry = NoRetry

\* ------------------------------------------------------------- cache
\* app/core/translation.py: TranslationCache.  Confidence is in percent.
MaxMemorySize == 2

Texts == {"Hello", "a:b"}

TargetLangs == {"zh-CN", "fr"}

\* translation.py:37-46
TranslationResult(original_text, translated_text, source_lang, target_lang, confidence, service) ==
    [original_text |-> original_text, translated_text |-> translated_text,
     source_lang |-> source_lang, target_lang |-> target_lang,
     confidence |-> confidence, service |-> service]

\* the results the translators of the model produce
Results ==
    {TranslationResult(x, tc[1], "en", t, tc[2], "test") :
        x \in Texts, t \in TargetLangs, tc \in {<<"t1", 95>>, <<"t2", 0>>}}

NoResultCached == TranslationResult("", "", "", "", 0, "")

\* translation.py:131-134: the digest is modelled by the string it is taken of
_generate_key(text, source_lang, target_lang, service) ==
    text \o ":" \o source_lang \o ":" \o target_lang \o ":" \o service

KeyOf(result) ==
    _generate_key(result.original_text, result.source_lang,
                  result.target_lang, result.service)

\* a row that loses the confidence column
RowNoConfidence(key, result) ==
    [hash |-> key, original_text |-> result.original_text,
     translated_text |-> result.translated_text,
     source_lang |-> result.source_lang, target_lang |-> result.target_lang,
     service |-> result.service, confidence |-> 0]

\* translation.py:207-217: the row INSERT OR REPLACE writes
Row(key, result) ==
    [hash |-> key, original_text |-> result.original_text,
     translated_text |-> result.translated_text,
     source_lang |-> result.source_lang, target_lang |-> result.target_lang,
     service |-> result.service, confidence |-> result.confidence]

\* translation.py:166-181: the result built from a row (confidence or 0.0)
FromRow(row) ==
    TranslationResult(row.original_text, row.translated_text,
                      row.source_lang, row.target_lang,
                      IF row.confidence = 0 THEN 0 ELSE row.confidence,
                      row.service)

\* list.remove(key) when the key is in the list
Without(order, key) == SelectSeq(order, LAMBDA k : k # key)

\* translation.py:142-145: the oldest keys go while the dict is too large
RECURSIVE EvictOldest(_, _)
EvictOldest(memory, order) ==
    IF Cardinality(DOMAIN memory) > max_memory_size /\ Len(order) > 0
    THEN EvictOldest(Remove(memory, Head(order)), Tail(order))
    ELSE [memory |-> memory, order |-> order]

\* a faulty bookkeeping: a key that is already listed keeps its place
MaintainFifo(memory, order, key) ==
    EvictOldest(memory, IF InSeq(key, order) THEN order
                        ELSE Append(order, key))

\* a faulty bookkeeping: the key is appended without being removed first
MaintainAppend(memory, order, key) ==
    EvictOldest(memory, Append(order, key))

\* translation.py:136-145: the dict and the access order after
\* _maintain_lru(key)
_maintain_lru(memory, order, key) ==
    EvictOldest(memory, Append(Without(order, key), key))

\* the last cache call: op, key, the value returned and the tier that served
\* it ("memory", "persistent", "miss"); observation only: evicted, the keys
\* the call removed from the dict, recent, the keys accessed since the cache
\* object was built, in the order of their last access, and stored, the
\* result last stored under each key
NoCall == [op |-> "none", key |-> "", result |-> NoResultCached,
           tier |-> "", evicted |-> {}, recent |-> <<>>,
           stored |-> [k \in {} |-> NoResultCached]]

CacheIdle ==
    /\ max_memory_size = MaxMemorySize
    /\ _memory_cache = [k \in {} |-> NoResultCached]
    /\ _access_order = <<>>
    /\ translations = [k \in {} |-> NoResultCached]
    /\ cached = NoCall

\* ------------------------------------------------ translation manager
\* app/core/translation.py: TranslationManager.
\* translation.py:506-513: the order without a primary service
DefaultPriority == <<"DeepL", "OpenAI", "Google", "Fallback">>

\* the manager between calls.  op, text, source_lang, target_lang,
\* use_cache, texts: the call; i, j, k: the loop variables; results, uncached_indices,
\* batch_results: the locals of translate_batch (a placeholder None of
\* results is NoResultCached); origin: where each entry of results came
\* from (observation only); result: the value returned
\* by translate; served: where it came from.  Observation only: probes, the
\* services whose is_available was called, invoked, the translate_single /
\* translate_batch calls made (service and texts), gets, the cache lookups
\* made, n, the calls begun, done, the translate calls a real service has
\* answered, and prior, done as it was when the call began.
NoMgr == [pc |-> "idle", op |-> "none", text |-> "", source_lang |-> "",
          target_lang |-> "", use_cache |-> TRUE, texts |-> <<>>, i |-> 0,
          j |-> 0, k |-> 0,
          results |-> <<>>, uncached_indices |-> <<>>,
          batch_results |-> <<>>, origin |-> <<>>,
          result |-> NoResultCached, served |-> "",
          probes |-> <<>>, invoked |-> <<>>, gets |-> <<>>, n |-> 0,
          done |-> {}, prior |-> {}]

MgrIdle ==
    /\ services = {"Fallback"}
    /\ service_priority = DefaultPriority
    /\ mgr = NoMgr

\* ----------------------------------------------------- the orchestrator
Init ==
    /\ fs = [p \in Paths |-> IF p = Video
                             THEN [exists |-> TRUE, size |-> 11, mtime |-> 2]
                             ELSE NoFile]
    /\ files = [n \in {} |-> CorruptFile]
    /\ now = 0
    /\ ret = NoReturn
    /\ ops = 0
    /\ run = 0
    /\ pc = "idle"
    /\ stage = 0
    /\ completed_stages = <<>>
    /\ locals = NoLocals
    /\ cancel_requested = FALSE
    /\ cancel_pc = "ready"
    /\ executor = "open"
    /\ task = NoTask
    /\ future = NoFuture
    /\ events = <<>>
    /\ outcome = "none"
    /\ hist = NoHist
    /\ world \in [nseg : {0, MaxSegments}]
    /\ RetryIdle
    /\ CacheIdle
    /\ MgrIdle

\* a record that lists stages as completed and holds no payload for them
Hollow(cp) == GoodFile([cp EXCEPT !.stage_data = EmptyDict])

\* what the checkpoint file of the video is: "none" (absent), "bad" (not
\* JSON), "shape" (not a record), "hollow" (a completed stage has no
\* payload) or "ok"
FoundKind(video_path) ==
    LET f == _get_checkpoint_file(video_path) IN
    IF ~Exists(f) THEN "none"
    ELSE IF files[f].json # "ok" THEN files[f].json
    ELSE IF \E i \in 1..Len(files[f].cp.completed_stages) :
                DictGet(files[f].cp.stage_data,
                        files[f].cp.completed_stages[i]) = None
    THEN "hollow"
    ELSE "ok"

\* improved_processing.py:39-68 and checkpoint.py:47-72: a new worker with
\* a fresh flag, pool and checkpoint manager (whose __init__ sweeps)
StartRun ==
    /\ pc \in {"idle", "done"}
    /\ run < MaxRuns
    /\ run' = run + 1
    /\ pc' = "load"
    /\ stage' = 0
    /\ completed_stages' = <<>>
    /\ locals' = NoLocals
    /\ cancel_requested' = FALSE
    /\ cancel_pc' = "ready"
    /\ executor' = "open"
    /\ task' = NoTask
    /\ future' = NoFuture
    /\ events' = <<>>
    /\ outcome' = "none"
    /\ hist' = [NoHist EXCEPT !.found = IF hist.found = "cleared"
                                        THEN "restart"
                                        ELSE FoundKind(Video)]
    /\ files' = cleanup_corrupted_checkpoints(files)
    /\ UNCHANGED <<fs, now, appVars, world, libVars>>

\* improved_processing.py:350-363
Load ==
    /\ pc = "load"
    /\ LET checkpoint == load_checkpoint(Video) IN
        /\ completed_stages' = checkpoint.completed_stages
        /\ hist' = [hist EXCEPT !.loaded = checkpoint]
    /\ files' = load_checkpoint_files(Video)
    /\ pc' = "check"
    /\ stage' = 1
    /\ UNCHANGED <<fs, now, appVars, world, libVars, run, locals, cancel_requested,
                   cancel_pc, executor, task, future, events, outcome>>

\* improved_processing.py:366-373 (and 379-386, 392-399, 405-412): run the
\* stage, or take its output from the checkpoint.  os.path.basename(None)
\* raises TypeError in the log line of stages 1 and 4.
Check ==
    /\ pc = "check"
    /\ IF ~InSeq(STAGES[stage], completed_stages)
       THEN /\ pc' = "entry"
            /\ hist' = [hist EXCEPT
                          !.entered[stage] = @ + 1,
                          !.inputs[stage] = StageInput(stage, locals),
                          !.order = Append(@, stage),
                          !.snap = files]
            /\ UNCHANGED <<locals, files>>
       ELSE LET data == get_stage_data(Video, STAGES[stage]) IN
            /\ files' = load_checkpoint_files(Video)
            /\ hist' = [hist EXCEPT !.resumed = @ \cup {stage}]
            /\ IF stage \in {1, 4} /\ data = None
               THEN /\ pc' = "except"
                    /\ locals' = [locals EXCEPT ![LocalOf(stage)] = data,
                                                !.exc = "Exception",
                                                !.msg = "TypeError"]
               ELSE /\ pc' = AfterStage(stage)
                    /\ locals' = [locals EXCEPT ![LocalOf(stage)] = data]
    /\ UNCHANGED <<fs, now, appVars, world, libVars, run, stage, completed_stages,
                   cancel_requested, cancel_pc, executor, task, future,
                   events, outcome>>

\* a faulty entry: the *_stage method does not look at the flag
EntryUnchecked ==
    /\ pc = "entry"
    /\ hist' = IF cancel_requested
               THEN [hist EXCEPT !.stopped_at = stage, !.seen = TRUE,
                                 !.snap = files]
               ELSE hist
    /\ pc' = "submit"
    /\ UNCHANGED <<fs, files, now, appVars, world, libVars, run, stage,
                   completed_stages, locals, cancel_requested, cancel_pc,
                   executor, task, future, events, outcome>>

\* improved_processing.py:126-127 (170-179, 215-228, 288-289): the check on
\* entry of a *_stage method; stages 2 and 3 then build their collaborator,
\* whose constructor may raise
Entry ==
    /\ pc = "entry"
    /\ hist' = IF cancel_requested
               THEN [hist EXCEPT !.stopped_at = stage, !.seen = TRUE,
                                 !.snap = files]
               ELSE hist
    /\ \/ /\ cancel_requested
          /\ Raise("Interrupted", "cancelled")
       \/ /\ ~cancel_requested
          /\ pc' = "submit"
          /\ UNCHANGED locals
       \/ /\ ~cancel_requested
          /\ stage \in {2, 3}
          /\ Raise("Exception", "constructor")
    /\ UNCHANGED <<fs, files, now, appVars, world, libVars, run, stage,
                   completed_stages, cancel_requested, cancel_pc, executor,
                   task, future, events, outcome>>

\* improved_processing.py:96-101: submit raises RuntimeError once the pool
\* has been shut down
Submit ==
    /\ pc = "submit"
    /\ IF executor = "shutdown"
       THEN /\ Raise("Exception", "cannot schedule new futures after shutdown")
            /\ UNCHANGED <<task, future>>
       ELSE /\ pc' = "wait"
            /\ future' = [state |-> "pending", result |-> None, exc |-> ""]
            /\ task' = [pc |-> "queued", stage |-> stage, i |-> 0,
                        input |-> StageInput(stage, locals), acc |-> <<>>]
            /\ UNCHANGED locals
    /\ UNCHANGED <<fs, files, now, appVars, world, libVars, run, stage,
                   completed_stages, cancel_requested, cancel_pc, executor,
                   events, outcome, hist>>

\* improved_processing.py:103-106 and 120-122: the future finished in time
Wait ==
    /\ pc = "wait"
    /\ future.state = "done"
    /\ IF future.exc = ""
       THEN /\ pc' = "post"
            /\ locals' = [locals EXCEPT !.result = future.result]
       ELSE Raise(future.exc, "")
    /\ future' = NoFuture
    /\ UNCHANGED <<fs, files, now, appVars, world, libVars, run, stage,
                   completed_stages, cancel_requested, cancel_pc, executor,
                   task, events, outcome, hist>>

\* a faulty deadline: the expiry is logged and the run goes on
TimeoutIgnored ==
    /\ pc = "wait"
    /\ future.state = "pending"
    /\ pc' = AfterStage(stage)
    /\ hist' = [hist EXCEPT !.timed_out = stage]
    /\ UNCHANGED <<fs, files, now, appVars, world, libVars, run, stage,
                   completed_stages, locals, cancel_requested, cancel_pc,
                   executor, task, future, events, outcome>>

\* improved_processing.py:107-119: the deadline expired first.
\* future.cancel() removes a call that has not begun; a running call goes on.
Timeout ==
    /\ pc = "wait"
    /\ future.state = "pending"
    /\ Raise("UserFriendly", STAGES[stage] \o " timeout")
    /\ hist' = [hist EXCEPT !.timed_out = stage]
    /\ task' = IF task.pc = "queued" THEN NoTask ELSE task
    /\ UNCHANGED <<fs, files, now, appVars, world, libVars, run, stage,
                   completed_stages, cancel_requested, cancel_pc, executor,
                   future, events, outcome>>

\* the payload a stage saves and returns: str(path) for stages 1 and 4
StageOutput(s, result) == IF s \in {1, 4} THEN str(result) ELSE result

\* improved_processing.py:141-166 (190-211, 273-281, 326-345): validate the
\* result, save the checkpoint, report the stage complete
Post ==
    /\ pc = "post"
    /\ IF stage \in {1, 2} /\ locals.result = None
       THEN /\ Raise("UserFriendly", "no result")
            /\ UNCHANGED <<files, hist>>
       ELSE /\ files' = save_checkpoint(Video, STAGES[stage],
                            StageOutput(stage, locals.result),
                            IF stage = 1 THEN WorkerJob ELSE DefaultJob)
            /\ locals' = [locals EXCEPT
                            ![LocalOf(stage)] = StageOutput(stage, locals.result)]
            /\ hist' = [hist EXCEPT !.finished = @ \cup {stage}]
            /\ pc' = AfterStage(stage)
    /\ UNCHANGED <<fs, now, appVars, world, libVars, run, stage, completed_stages,
                   cancel_requested, cancel_pc, executor, task, future,
                   events, outcome>>

\* improved_processing.py:375-376 (388-389, 401-402)
Between ==
    /\ pc = "between"
    /\ IF cancel_requested
       THEN /\ pc' = "cleanup"
            /\ outcome' = "cancelled"
            /\ hist' = [hist EXCEPT !.stopped_at = stage + 1, !.seen = TRUE,
                                    !.snap = files]
            /\ UNCHANGED stage
       ELSE /\ pc' = "check"
            /\ stage' = stage + 1
            /\ UNCHANGED <<outcome, hist>>
    /\ UNCHANGED <<fs, files, now, appVars, world, libVars, run, completed_stages,
                   locals, cancel_requested, cancel_pc, executor, task,
                   future, events>>

\* improved_processing.py:414-442
Final ==
    /\ pc = "final"
    /\ pc' = "cleanup"
    /\ events' = Append(events, "finished")
    /\ outcome' = "completed"
    /\ hist' = [hist EXCEPT !.final = FinalResult(locals)]
    /\ UNCHANGED <<fs, files, now, appVars, world, libVars, run, stage,
                   completed_stages, locals, cancel_requested, cancel_pc,
                   executor, task, future>>

\* improved_processing.py:444-453.  UserFriendlyError has no attribute
\* message (exception_handler.py:40-52), so its handler raises
\* AttributeError before it emits the error signal.
Except ==
    /\ pc = "except"
    /\ pc' = "cleanup"
    /\ CASE locals.exc = "Interrupted" ->
                /\ events' = Append(events, "error")
                /\ outcome' = "cancelled"
         [] locals.exc = "UserFriendly" ->
                /\ events' = events
                /\ outcome' = "crashed"
         [] OTHER ->
                /\ events' = Append(events, "error")
                /\ outcome' = "failed"
    /\ UNCHANGED <<fs, files, now, appVars, world, libVars, run, stage,
                   completed_stages, locals, cancel_requested, cancel_pc,
                   executor, task, future, hist>>

\* improved_processing.py:84-92 and 454-455: shutdown(wait=True) returns
\* when the pool's threads have finished
Cleanup ==
    /\ pc = "cleanup"
    /\ task.pc = "none"
    /\ pc' = "done"
    /\ UNCHANGED <<fs, files, now, appVars, world, libVars, run, stage,
                   completed_stages, locals, cancel_requested, cancel_pc,
                   executor, task, future, events, outcome, hist>>

\* ------------------------------------------------- cancel(), GUI thread
\* improved_processing.py:74-76: cancel() sets the flag ...
CancelSet ==
    /\ cancel_pc = "ready"
    /\ pc \notin {"idle", "done"}
    /\ cancel_requested' = TRUE
    /\ cancel_pc' = "shutdown"
    /\ hist' = [hist EXCEPT !.cancel_early =
                   /\ pc \in {"check", "entry", "submit", "wait", "post", "between"}
                   /\ 4 \notin hist.finished \cup hist.resumed]
    /\ UNCHANGED <<fs, files, now, appVars, world, libVars, run, pc, stage,
                   completed_stages, locals, executor, task, future, events,
                   outcome>>

\* improved_processing.py:77-78: ... and then shuts the pool down
CancelShutdown ==
    /\ cancel_pc = "shutdown"
    /\ executor' = "shutdown"
    /\ cancel_pc' = "done"
    /\ UNCHANGED <<fs, files, now, appVars, world, libVars, run, pc, stage,
                   completed_stages, locals, cancel_requested, task, future,
                   events, outcome, hist>>

\* ------------------------------------------ the pool thread (the target)
\* the future gets a result or an exception and the pool thread is free
Resolve(result, exc) ==
    /\ task' = NoTask
    /\ future' = [state |-> "done", result |-> result, exc |-> exc]

\* a stage function raised on its own account while the run was waiting
NoteRaised(h) == IF h.timed_out = 0 THEN [h EXCEPT !.raised = task.stage] ELSE h

NoteCall(h) == [h EXCEPT !.called[task.stage] = @ + 1,
                         !.late = IF cancel_requested THEN @ + 1 ELSE @,
                         !.after_seen = IF h.seen THEN @ + 1 ELSE @]

\* improved_processing.py:133-134 (182-183, 231-241, 295-300): the target
\* begins with a poll of the flag; translate() raises when there is no text
TaskStart ==
    /\ task.pc = "queued"
    /\ IF cancel_requested
       THEN Resolve(None, "Interrupted") /\ hist' = [hist EXCEPT !.seen = TRUE]
       ELSE IF task.stage \in {3, 4} /\ task.input.type # "dict"
       THEN Resolve(None, "Exception") /\ hist' = NoteRaised(hist)
       ELSE IF task.stage = 3 /\ Len(task.input.segs) = 0
       THEN Resolve(None, "UserFriendly") /\ hist' = NoteRaised(hist)
       ELSE /\ task' = [task EXCEPT !.pc = IF task.stage = 3 THEN "loop" ELSE "call",
                                    !.i = 1]
            /\ UNCHANGED <<future, hist>>
    /\ UNCHANGED <<fs, files, now, appVars, world, libVars, run, pc, stage,
                   completed_stages, locals, cancel_requested, cancel_pc,
                   executor, events, outcome>>

\* improved_processing.py:135-137 (185-186, 302-322): the collaborator is
\* called ...
TaskInvoke ==
    /\ task.pc = "call"
    /\ task' = [task EXCEPT !.pc = "running"]
    /\ hist' = NoteCall(hist)
    /\ UNCHANGED <<fs, files, now, appVars, world, libVars, run, pc, stage,
                   completed_stages, locals, cancel_requested, cancel_pc,
                   executor, future, events, outcome>>

\* the value the collaborator of stage s returns for an input
Collaborator(s, input) == CASE s = 1 -> ExtractAudio(input)
                            [] s = 2 -> Transcribe(input)
                            [] OTHER -> SaveSubtitles(input)

\* ... and returns its value, returns nothing (stages 1 and 2) or raises
TaskReturn ==
    /\ task.pc = "running"
    /\ \/ /\ Resolve(Collaborator(task.stage, task.input), "")
          /\ UNCHANGED hist
       \/ /\ task.stage \in {1, 2}
          /\ Resolve(None, "")
          /\ UNCHANGED hist
       \/ /\ Resolve(None, "Exception")
          /\ hist' = NoteRaised(hist)
    /\ UNCHANGED <<fs, files, now, appVars, world, libVars, run, pc, stage,
                   completed_stages, locals, cancel_requested, cancel_pc,
                   executor, events, outcome>>

\* improved_processing.py:245-269: after text i the loop goes on, or the
\* target returns the translation result
LoopNext(acc) ==
    IF task.i < Len(task.input.segs)
    THEN /\ task' = [task EXCEPT !.pc = "loop", !.i = @ + 1, !.acc = acc]
         /\ UNCHANGED future
    ELSE Resolve(Val("dict", "trans", task.input.src, task.input.segs, acc), "")

\* a faulty loop: the flag is not polled between texts
TaskLoopNoPoll ==
    /\ task.pc = "loop"
    /\ IF task.input.segs[task.i] # 0
       THEN task' = [task EXCEPT !.pc = "translate"] /\ UNCHANGED future
       ELSE LoopNext(Append(task.acc, task.input.segs[task.i]))
    /\ UNCHANGED <<fs, files, now, appVars, world, libVars, run, pc, stage,
                   completed_stages, locals, cancel_requested, cancel_pc,
                   executor, events, outcome, hist>>

\* improved_processing.py:246-249 and 256-257: the poll at the head of the
\* loop; a blank text is passed through
TaskLoopPoll ==
    /\ task.pc = "loop"
    /\ IF cancel_requested
       THEN Resolve(None, "Interrupted") /\ hist' = [hist EXCEPT !.seen = TRUE]
       ELSE IF task.input.segs[task.i] # 0
       THEN task' = [task EXCEPT !.pc = "translate"] /\ UNCHANGED <<future, hist>>
       ELSE LoopNext(Append(task.acc, task.input.segs[task.i])) /\ UNCHANGED hist
    /\ UNCHANGED <<fs, files, now, appVars, world, libVars, run, pc, stage,
                   completed_stages, locals, cancel_requested, cancel_pc,
                   executor, events, outcome>>

\* improved_processing.py:250-254: translator.translate is called ...
TaskTranslate ==
    /\ task.pc = "translate"
    /\ task' = [task EXCEPT !.pc = "translating"]
    /\ hist' = NoteCall(hist)
    /\ UNCHANGED <<fs, files, now, appVars, world, libVars, run, pc, stage,
                   completed_stages, locals, cancel_requested, cancel_pc,
                   executor, future, events, outcome>>

\* improved_processing.py:255: ... and returns, or raises
TaskTranslated ==
    /\ task.pc = "translating"
    /\ \/ /\ LoopNext(Append(task.acc, TranslatedText(task.input.segs[task.i])))
          /\ UNCHANGED hist
       \/ /\ Resolve(None, "Exception")
          /\ hist' = NoteRaised(hist)
    /\ UNCHANGED <<fs, files, now, appVars, world, libVars, run, pc, stage,
                   completed_stages, locals, cancel_requested, cancel_pc,
                   executor, events, outcome>>

\* ---------------------------------------------------------- environment
\* time passes
Tick ==
    /\ now + TickDays <= MaxNow
    /\ now' = now + TickDays
    /\ UNCHANGED <<fs, files, appVars, world, libVars, runVars>>

\* main_window.py:401-415: the resume prompt, answered "start over"
ClearByUser ==
    /\ pc = "done"
    /\ can_resume(Video)
    /\ files' = clear_checkpoint(Video)
    /\ pc' = "idle"
    /\ hist' = [hist EXCEPT !.found = "cleared"]
    /\ UNCHANGED <<fs, now, appVars, world, libVars, run, stage, completed_stages,
                   locals, cancel_requested, cancel_pc, executor, task,
                   future, events, outcome>>

\* between two runs the checkpoint file of the video is damaged: it is no
\* longer JSON, no longer a record, or it has lost its payloads
Damage(kind) ==
    /\ pc = "done"
    /\ Exists(_get_checkpoint_file(Video))
    /\ files[_get_checkpoint_file(Video)].json = "ok"
    /\ files' = [files EXCEPT ![_get_checkpoint_file(Video)] =
                    CASE kind = "bad" -> CorruptFile
                      [] kind = "shape" -> WrongShapeFile
                      [] OTHER -> Hollow(@.cp)]
    /\ pc' = "idle"
    /\ UNCHANGED <<fs, now, appVars, world, libVars, run, stage, completed_stages,
                   locals, cancel_requested, cancel_pc, executor, task,
                   future, events, outcome, hist>>

Next ==
    \/ StartRun \/ Load \/ Check \/ Entry \/ Submit \/ Wait \/ Timeout
    \/ Post \/ Between \/ Final \/ Except \/ Cleanup
    \/ CancelSet \/ CancelShutdown
    \/ TaskStart \/ TaskInvoke \/ TaskReturn
    \/ TaskLoopPoll \/ TaskTranslate \/ TaskTranslated
    \/ Tick \/ ClearByUser
    \/ \E k \in {"bad", "shape", "hollow"} : Damage(k)

Spec == Init /\ [][Next]_vars

\* ---------------------------------------- failing saves, builtin timeouts
\* checkpoint.py:165-167: save_checkpoint catches every exception, logs it
\* and returns False.  "unwritten": the exception came before the file was
\* opened for writing (lines 109-154); "truncated": it came while json.dump
\* was writing it (lines 156-157), after open(..., 'w') had emptied it.
save_checkpoint_failed(video_path, kind) ==
    LET f == _get_checkpoint_file(video_path) IN
    IF kind = "unwritten" THEN files
    ELSE [n \in (DOMAIN files) \cup {f} |->
             IF n = f THEN CorruptFile ELSE files[n]]

\* improved_processing.py:154-166 (203-211, 273-281, 336-345): the value
\* save_checkpoint returns is not looked at: the stage is reported complete
\* and its result handed on whether the save succeeded or not
PostSaveFailed(kind) ==
    /\ pc = "post"
    /\ ~(stage \in {1, 2} /\ locals.result = None)
    /\ files' = save_checkpoint_failed(Video, kind)
    /\ locals' = [locals EXCEPT
                    ![LocalOf(stage)] = StageOutput(stage, locals.result)]
    /\ hist' = [hist EXCEPT !.finished = @ \cup {stage}]
    /\ pc' = AfterStage(stage)
    /\ UNCHANGED <<fs, now, appVars, world, libVars, run, stage, completed_stages,
                   cancel_requested, cancel_pc, executor, task, future,
                   events, outcome>>

\* the stage function raises the builtin TimeoutError (socket.timeout is
\* that class) before the deadline
TaskRaiseTimeout ==
    /\ task.pc = "running"
    /\ Resolve(None, "TimeoutError")
    /\ hist' = NoteRaised(hist)
    /\ UNCHANGED <<fs, files, now, appVars, world, libVars, run, pc, stage,
                   completed_stages, locals, cancel_requested, cancel_pc,
                   executor, events, outcome>>

\* improved_processing.py:14 and 107-119: where concurrent.futures.
\* TimeoutError is the builtin TimeoutError (Python 3.11 and later), the
\* clause "except TimeoutError" also takes a TimeoutError that
\* future.result() re-raises from the stage function; elsewhere Wait hands
\* it on through "except Exception"
WaitBuiltinTimeout ==
    /\ pc = "wait"
    /\ future.state = "done"
    /\ future.exc = "TimeoutError"
    /\ Raise("UserFriendly", STAGES[stage] \o " timeout")
    /\ future' = NoFuture
    /\ UNCHANGED <<fs, files, now, appVars, world, libVars, run, stage,
                   completed_stages, cancel_requested, cancel_pc, executor,
                   task, events, outcome, hist>>

\* the worker with saves that fail and stage functions that raise
\* TimeoutError; the checkpoint file is touched by the worker alone
NextFaults ==
    \/ StartRun \/ Load \/ Check \/ Entry \/ Submit \/ Wait \/ Timeout
    \/ Post \/ Between \/ Final \/ Except \/ Cleanup
    \/ CancelSet \/ CancelShutdown
    \/ TaskStart \/ TaskInvoke \/ TaskReturn
    \/ TaskLoopPoll \/ TaskTranslate \/ TaskTranslated
    \/ Tick \/ ClearByUser
    \/ \E k \in {"unwritten", "truncated"} : PostSaveFailed(k)
    \/ TaskRaiseTimeout
    \/ WaitBuiltinTimeout

SpecFaults == Init /\ [][NextFaults]_vars

\* ------------------------------------------- the store, called directly
\* The application calls the checkpoint manager for any of its videos.
\* The payload of a save names the video and the fingerprint it is saved for.
StorePayload(video_path) ==
    Val("dict", _get_video_hash(video_path), video_path, <<>>, <<>>)

\* a payload that holds a pathlib.Path
StorePath(video_path) ==
    Val("Path", _get_video_hash(video_path), video_path, <<>>, <<>>)

StoreData(video_path) == {StorePayload(video_path), StorePath(video_path)}

Returned(op, video_path) ==
    [NoReturn EXCEPT !.op = op, !.path = video_path,
                     !.hash = _get_video_hash(video_path), !.at = now]

\* a well-formed record that was written for another identity (a file copied
\* into the checkpoint directory under this name)
ForeignFile ==
    GoodFile(ProcessingCheckpoint("elsewhere", "elsewhere", DefaultJob, 0,
                                  <<STAGES[1]>>,
                                  DictPut(EmptyDict, STAGES[1],
                                          Val("dict", "elsewhere", "elsewhere",
                                              <<>>, <<>>))))

\* the size of each video of the model
InitialSize(video_path) == IF video_path = Video THEN 11 ELSE 1

\* the checkpoint store and the pipeline before any call
AppIdle ==
    /\ fs = [p \in Paths |->
                [exists |-> TRUE, size |-> InitialSize(p),
                 mtime |-> IF p = Video THEN 2 ELSE 3]]
    /\ files = [n \in {} |-> CorruptFile]
    /\ now = 0
    /\ ret = NoReturn
    /\ ops = 0
    /\ run = 0
    /\ pc = "idle"
    /\ stage = 0
    /\ completed_stages = <<>>
    /\ locals = NoLocals
    /\ cancel_requested = FALSE
    /\ cancel_pc = "ready"
    /\ executor = "open"
    /\ task = NoTask
    /\ future = NoFuture
    /\ events = <<>>
    /\ outcome = "none"
    /\ hist = NoHist
    /\ world = [nseg |-> MaxSegments]

InitStore == AppIdle /\ RetryIdle /\ CacheIdle /\ MgrIdle

\* checkpoint.py:95-167
StoreSave(video_path, stg, data) ==
    /\ ops < MaxOps
    /\ ops' = ops + 1
    /\ files' = save_checkpoint(video_path, stg, data, DefaultJob)
    /\ ret' = [Returned("save", video_path) EXCEPT !.stage = stg, !.data = data]
    /\ UNCHANGED <<fs, now, world, libVars, runVars>>

\* checkpoint.py:169-210
StoreLoad(video_path) ==
    /\ ops < MaxOps
    /\ ops' = ops + 1
    /\ files' = load_checkpoint_files(video_path)
    /\ ret' = [Returned("load", video_path) EXCEPT
                  !.cp = load_checkpoint(video_path)]
    /\ UNCHANGED <<fs, now, world, libVars, runVars>>

\* checkpoint.py:253-259
StoreGetStageData(video_path, stg) ==
    /\ ops < MaxOps
    /\ ops' = ops + 1
    /\ files' = load_checkpoint_files(video_path)
    /\ ret' = [Returned("get_stage_data", video_path) EXCEPT
                  !.cp = load_checkpoint(video_path),
                  !.data = get_stage_data(video_path, stg)]
    /\ UNCHANGED <<fs, now, world, libVars, runVars>>

\* checkpoint.py:319-336
StoreGetRecoveryInfo(video_path) ==
    /\ ops < MaxOps
    /\ ops' = ops + 1
    /\ files' = load_checkpoint_files(video_path)
    /\ ret' = [Returned("get_recovery_info", video_path) EXCEPT
                  !.cp = load_checkpoint(video_path),
                  !.info = get_recovery_info(video_path)]
    /\ UNCHANGED <<fs, now, world, libVars, runVars>>

\* checkpoint.py:261-271
StoreClear(video_path) ==
    /\ ops < MaxOps
    /\ ops' = ops + 1
    /\ files' = clear_checkpoint(video_path)
    /\ ret' = Returned("clear", video_path)
    /\ UNCHANGED <<fs, now, world, libVars, runVars>>

\* checkpoint.py:47-72: a new manager sweeps the directory
StoreSweep ==
    /\ ops < MaxOps
    /\ ops' = ops + 1
    /\ files' = cleanup_corrupted_checkpoints(files)
    /\ ret' = [NoReturn EXCEPT !.op = "sweep"]
    /\ UNCHANGED <<fs, now, world, libVars, runVars>>

\* the video file is rewritten, replaced or removed
Touch(video_path, meta) ==
    /\ ops < MaxOps
    /\ ops' = ops + 1
    /\ meta # fs[video_path]
    /\ fs' = [fs EXCEPT ![video_path] = meta]
    /\ ret' = NoReturn
    /\ UNCHANGED <<files, now, world, libVars, runVars>>

\* a checkpoint file is damaged on disk
Corrupt(name, content) ==
    /\ ops < MaxOps
    /\ ops' = ops + 1
    /\ name \in DOMAIN files
    /\ files[name] # content
    /\ files' = [files EXCEPT ![name] = content]
    /\ ret' = NoReturn
    /\ UNCHANGED <<fs, now, world, libVars, runVars>>

\* improved_processing.py:366-418: a pipeline run of the video goes through
\* to its end: every stage the record does not list is saved, in order
\* (checkpoint.py:95-167 once per stage), and the record stays
RunToEnd(video_path) ==
    /\ ops < MaxOps
    /\ ops' = ops + 1
    /\ fs[video_path].exists
    /\ LET f == _get_checkpoint_file(video_path)
           fresh == ProcessingCheckpoint(video_path,
                                         _get_video_hash(video_path),
                                         DefaultJob, now, <<>>, EmptyDict)
           checkpoint == IF Exists(f) /\ files[f].json = "ok"
                         THEN files[f].cp ELSE fresh
           missing == SelectSeq(STAGES,
                          LAMBDA s : ~InSeq(s, checkpoint.completed_stages))
           updated == [checkpoint EXCEPT
                          !.completed_stages = @ \o missing,
                          !.stage_data =
                              [s \in StageNames |->
                                  IF InSeq(s, missing)
                                  THEN StorePayload(video_path)
                                  ELSE DictGet(checkpoint.stage_data, s)],
                          !.timestamp = now]
       IN  /\ missing # <<>>
           /\ files' = [n \in (DOMAIN files) \cup {f} |->
                           IF n = f THEN GoodFile(updated) ELSE files[n]]
    /\ ret' = NoReturn
    /\ UNCHANGED <<fs, now, world, libVars, runVars>>

\* the stages the application saves and asks for
StoreStages == {STAGES[1], STAGES[2]}

\* what a video file can become: rewritten (a new modification time) or
\* removed; a removed file can be put back
TouchMetas(video_path) ==
    {NoFile} \cup {m \in FileMetas : m.size = InitialSize(video_path)}

NextStore ==
    \/ \E p \in Paths, s \in StoreStages :
          \E d \in StoreData(p) : StoreSave(p, s, d)
    \/ \E p \in Paths : StoreLoad(p)
    \/ \E p \in Paths, s \in StoreStages : StoreGetStageData(p, s)
    \/ \E p \in Paths : StoreGetRecoveryInfo(p)
    \/ \E p \in Paths : StoreClear(p)
    \/ StoreSweep
    \/ \E p \in Paths : RunToEnd(p)
    \/ \E p \in Paths : \E m \in TouchMetas(p) : Touch(p, m)
    \/ \E n \in DOMAIN files,
          c \in {CorruptFile, WrongShapeFile, ForeignFile} : Corrupt(n, c)
    \/ Tick

SpecStore == InitStore /\ [][NextStore]_vars

\* the store over a directory in which a file can also be left undecodable
NextSweep ==
    \/ \E p \in Paths, s \in StoreStages :
          \E d \in StoreData(p) : StoreSave(p, s, d)
    \/ \E p \in Paths : StoreLoad(p)
    \/ StoreSweep
    \/ \E n \in DOMAIN files,
          c \in {CorruptFile, WrongShapeFile, UndecodableFile} : Corrupt(n, c)

SpecSweep == InitStore /\ [][NextSweep]_vars

\* ------------------------------------------------- one decorated call
\* recovery_manager.py:124-161: a call of the wrapper retry_with_config
\* builds, for each configuration
InitRetry ==
    /\ AppIdle
    /\ CacheIdle
    /\ MgrIdle
    /\ config \in Configs
    /\ retry = NoRetry

\* recovery_manager.py:132-134: the loop enters its next round and invokes
\* the wrapped function, which returns ("ok") or raises
Call(result) ==
    /\ retry.pc = "call"
    /\ retry.attempt < config.max_attempts
    /\ retry' = IF result = "ok"
                THEN [retry EXCEPT !.calls = @ + 1, !.pc = "returned"]
                ELSE [retry EXCEPT !.calls = @ + 1, !.pc = "except",
                                   !.raised = Append(@, result)]
    /\ UNCHANGED <<fs, files, now, appVars, world, runVars, config, cacheVars,
                   mgrVars>>

\* recovery_manager.py:143-155: the except branch re-raises, or sleeps and
\* goes on to the next round
Handler ==
    /\ retry.pc = "except"
    /\ LET e == retry.raised[Len(retry.raised)] IN
       retry' =
         IF ~should_retry(e, retry.attempt + 1)
         THEN [retry EXCEPT !.pc = "raised", !.exc = e]
         ELSE IF retry.attempt < config.max_attempts - 1
         THEN [retry EXCEPT
                  !.slept = Append(@, calculate_delay(retry.attempt + 1)),
                  !.attempt = @ + 1, !.pc = "call"]
         ELSE [retry EXCEPT !.pc = "raised", !.exc = e]
    /\ UNCHANGED <<fs, files, now, appVars, world, runVars, config, cacheVars,
                   mgrVars>>

\* recovery_manager.py:157-158: the loop ran out without a return or a raise
Exhausted ==
    /\ retry.pc = "call"
    /\ ~(retry.attempt < config.max_attempts)
    /\ retry' = [retry EXCEPT !.pc = "raised", !.exc = "Exception"]
    /\ UNCHANGED <<fs, files, now, appVars, world, runVars, config, cacheVars,
                   mgrVars>>

NextRetry ==
    \/ \E r \in ExceptionTypes \cup {"ok"} : Call(r)
    \/ Handler
    \/ Exhausted

SpecRetry == InitRetry /\ [][NextRetry]_vars

\* ------------------------------------------------ the translation cache
\* translation.py:79-104: a cache object over an empty database
InitCache ==
    /\ AppIdle
    /\ RetryIdle
    /\ MgrIdle
    /\ max_memory_size \in 0..MaxMemorySize
    /\ _memory_cache = [k \in {} |-> NoResultCached]
    /\ _access_order = <<>>
    /\ translations = [k \in {} |-> NoResultCached]
    /\ cached = NoCall

\* what the observer notes of a call that accessed the entry of key
Accessed(op, key, result, tier, memory) ==
    [cached EXCEPT !.op = op, !.key = key, !.result = result, !.tier = tier,
                   !.evicted = (DOMAIN _memory_cache) \ (DOMAIN memory),
                   !.recent = Append(Without(@, key), key)]

\* translation.py:147-189: what cache.get does to the cache
get(text, source_lang, target_lang, service) ==
    LET key == _generate_key(text, source_lang, target_lang, service) IN
    IF key \in DOMAIN _memory_cache
    THEN LET lru == _maintain_lru(_memory_cache, _access_order, key) IN
         /\ _memory_cache' = lru.memory
         /\ _access_order' = lru.order
         /\ cached' = Accessed("get", key, lru.memory[key], "memory",
                               lru.memory)
    ELSE IF key \in DOMAIN translations
    THEN LET translation_result == FromRow(translations[key])
             lru == _maintain_lru(
                        DictPut(_memory_cache, key, translation_result),
                        _access_order, key)
         IN  /\ _memory_cache' = lru.memory
             /\ _access_order' = lru.order
             /\ cached' = Accessed("get", key, translation_result,
                                   "persistent", lru.memory)
    ELSE /\ cached' = [cached EXCEPT !.op = "get", !.key = key,
                                     !.result = NoResultCached,
                                     !.tier = "miss", !.evicted = {}]
         /\ UNCHANGED <<_memory_cache, _access_order>>

\* translation.py:191-217: what cache.store does to the cache
store(result) ==
    LET key == KeyOf(result)
        lru == _maintain_lru(DictPut(_memory_cache, key, result),
                             _access_order, key)
    IN  /\ _memory_cache' = lru.memory
        /\ _access_order' = lru.order
        /\ translations' = DictPut(translations, key, Row(key, result))
        /\ cached' = [Accessed("store", key, result, "", lru.memory)
                         EXCEPT !.stored = DictPut(@, key, result)]

\* a direct call of cache.get
CacheGet(text, source_lang, target_lang, service) ==
    /\ get(text, source_lang, target_lang, service)
    /\ UNCHANGED <<fs, files, now, appVars, world, runVars, retryVars,
                   mgrVars, max_memory_size, translations>>

\* a direct call of cache.store
CacheStore(result) ==
    /\ store(result)
    /\ UNCHANGED <<fs, files, now, appVars, world, runVars, retryVars,
                   mgrVars, max_memory_size>>

\* translation.py:79-104: the process starts again: a new cache object over
\* the database the old one left
CacheRestart ==
    /\ translations # [k \in {} |-> NoResultCached]
    /\ _memory_cache' = [k \in {} |-> NoResultCached]
    /\ _access_order' = <<>>
    /\ cached' = [NoCall EXCEPT !.stored = cached.stored]
    /\ UNCHANGED <<fs, files, now, appVars, world, runVars, retryVars,
                   mgrVars, max_memory_size, translations>>

NextCache ==
    \/ \E x \in Texts, t \in TargetLangs : CacheGet(x, "en", t, "test")
    \/ \E r \in Results : CacheStore(r)
    \/ CacheRestart

SpecCache == InitCache /\ [][NextCache]_vars

\* ------------------------------------------- translate, translate_batch
\* app/core/translation.py: TranslationManager over DeepLTranslator and
\* FallbackTranslator.  Confidence is in percent.
MaxCalls == 2

\* a test that takes only the empty string as blank
BlankOnlyEmpty(text) == text = ""

\* not text.strip()
Blank(text) == text \in {"", " "}

SingleTexts == {"", " ", "video", "b"}

SourceLangs == {"auto", "en"}

\* "zh" is a pair of the terminology table with "en", "zh-CN" is not
ManagerTargets == {"zh", "zh-CN"}

\* translation.py:499-513: with and without a DeepL key; without a primary
\* service and with primary_service = "fallback"
ServiceSets == {{"DeepL", "Fallback"}, {"Fallback"}}

Priorities == {DefaultPriority, <<"Fallback", "DeepL", "OpenAI", "Google">>}

\* the registered services in the order they are tried
RegisteredOrder == SelectSeq(service_priority, LAMBDA x : x \in services)

\* a loop over service_priority that takes every name as registered
NextListed(i) == i

\* translation.py:555-556, 564-565: the next index from i on of a service
\* that is registered, len + 1 when there is none
NextRegistered(i) ==
    LET rest == {x \in i..Len(service_priority) :
                    service_priority[x] \in services}
    IN  IF rest = {} THEN Len(service_priority) + 1
        ELSE CHOOSE x \in rest : \A y \in rest : x <= y

\* translation.py:226-243, 253-265: the default table replaces the word
\* video by its Chinese term ("shipin" here) for the pair en-zh
apply_terminology(text, source_lang, target_lang) ==
    IF source_lang \o "-" \o target_lang = "en-zh" /\ text = "video"
    THEN "shipin"
    ELSE text

\* translation.py:354: the language DeepL reports for the text: the one
\* asked for, or the one it found when asked to detect
Detected(source_lang) == IF source_lang = "auto" THEN "en" ELSE source_lang

\* the text DeepL answers with
DeepLText(text) == IF text = "video" THEN "yingpian" ELSE "zh-" \o text

\* translation.py:332-364 (DeepL), 459-471 (Fallback): the result of
\* translate_single when it returns
translate_single(service, text, source_lang, target_lang) ==
    IF service = "DeepL"
    THEN TranslationResult(text, DeepLText(text), Detected(source_lang),
                           target_lang, 95, "DeepL")
    ELSE TranslationResult(text, text, source_lang, target_lang, 0,
                           "fallback")

\* translation.py:544-551, 631-638
Passthrough(text, source_lang, target_lang) ==
    TranslationResult(text, text, source_lang, target_lang, 100,
                      "passthrough")

\* translation.py:599-607
Emergency(text, source_lang, target_lang) ==
    TranslationResult(text, text, source_lang, target_lang, 0,
                      "emergency_fallback")

InitTranslate ==
    /\ AppIdle
    /\ RetryIdle
    /\ CacheIdle
    /\ services \in ServiceSets
    /\ service_priority \in Priorities
    /\ mgr = NoMgr

\* the locals of a call that begins
Begun(op) ==
    [NoMgr EXCEPT !.op = op, !.n = mgr.n + 1, !.done = mgr.done,
                  !.prior = mgr.done]

\* translation.py:529-551: translate is called; a blank text returns at once
Translate(text, source_lang, target_lang, use_cache) ==
    /\ mgr.pc = "idle"
    /\ mgr.n < MaxCalls
    /\ LET begun == [Begun("translate") EXCEPT
                        !.text = text, !.source_lang = source_lang,
                        !.target_lang = target_lang,
                        !.use_cache = use_cache]
       IN  mgr' = IF Blank(text)
                  THEN [begun EXCEPT
                           !.result = Passthrough(text, source_lang,
                                                  target_lang),
                           !.served = "passthrough"]
                  ELSE [begun EXCEPT
                           !.pc = IF use_cache THEN "cache" ELSE "probe",
                           !.i = NextRegistered(1)]
    /\ UNCHANGED <<fs, files, now, appVars, world, runVars, retryVars,
                   cacheVars, services, service_priority>>

\* the loop over the services goes on at index i, or ends
Onward(m, i, then) ==
    IF i <= Len(service_priority) THEN [m EXCEPT !.i = i]
    ELSE IF then = "probe"
    THEN [m EXCEPT !.pc = "probe", !.i = NextRegistered(1)]
    ELSE [m EXCEPT !.pc = "idle", !.served = "emergency",
                   !.result = Emergency(m.text, m.source_lang,
                                        m.target_lang)]

\* translation.py:553-560: one round of the cache loop of translate
Lookup ==
    /\ mgr.pc = "cache"
    /\ get(mgr.text, mgr.source_lang, mgr.target_lang,
           service_priority[mgr.i])
    /\ LET m == [mgr EXCEPT !.gets = Append(@, service_priority[mgr.i])] IN
       mgr' = IF cached'.tier # "miss"
              THEN [m EXCEPT !.pc = "idle", !.result = cached'.result,
                             !.served = "cache"]
              ELSE Onward(m, NextRegistered(mgr.i + 1), "probe")
    /\ UNCHANGED <<fs, files, now, appVars, world, runVars, retryVars,
                   max_memory_size, translations, services,
                   service_priority>>

\* translation.py:563-570: is_available of the service at index i; the
\* fallback is always available
Probe(available) ==
    /\ mgr.pc = "probe"
    /\ service_priority[mgr.i] = "Fallback" => available
    /\ LET m == [mgr EXCEPT !.probes =
                     Append(@, [service |-> service_priority[mgr.i],
                                available |-> available])]
       IN  mgr' = IF available THEN [m EXCEPT !.pc = "call"]
                  ELSE Onward(m, NextRegistered(mgr.i + 1), "end")
    /\ UNCHANGED <<fs, files, now, appVars, world, runVars, retryVars,
                   cacheVars, services, service_priority>>

\* translation.py:572-597: translate_single of the service at index i
\* returns (terminology, cache.store, return) or raises (next service)
Invoke(raises) ==
    /\ mgr.pc = "call"
    /\ service_priority[mgr.i] = "Fallback" => ~raises
    /\ LET name == service_priority[mgr.i]
           m == [mgr EXCEPT !.invoked =
                    Append(@, [service |-> name, texts |-> <<mgr.text>>,
                               raised |-> raises])]
           answer == translate_single(name, mgr.text, mgr.source_lang,
                                      mgr.target_lang)
           result == [answer EXCEPT !.translated_text =
                         apply_terminology(@, mgr.source_lang,
                                           mgr.target_lang)]
       IN  IF raises
           THEN /\ mgr' = [Onward(m, NextRegistered(mgr.i + 1), "end")
                              EXCEPT !.pc = IF @ = "idle" THEN @
                                            ELSE "probe"]
                /\ UNCHANGED cacheVars
           ELSE /\ IF mgr.use_cache
                   THEN store(result) /\ UNCHANGED max_memory_size
                   ELSE UNCHANGED cacheVars
                /\ mgr' = [m EXCEPT
                              !.pc = "idle", !.result = result,
                              !.served = "provider",
                              !.done = IF name = "Fallback" \/ ~mgr.use_cache
                                       THEN @
                                       ELSE @ \cup
                                            {[service |-> name,
                                              text |-> mgr.text,
                                              source_lang |-> mgr.source_lang,
                                              target_lang |-> mgr.target_lang,
                                              result |-> result]}]
    /\ UNCHANGED <<fs, files, now, appVars, world, runVars, retryVars,
                   services, service_priority>>

\* translation.py:480-513: the process starts again with another set of API
\* keys or another primary service, over the database the old one left
NewManager(registered, priority) ==
    /\ mgr.pc = "idle"
    /\ <<registered, priority>> # <<services, service_priority>>
    /\ services' = registered
    /\ service_priority' = priority
    /\ _memory_cache' = [k \in {} |-> NoResultCached]
    /\ _access_order' = <<>>
    /\ cached' = [NoCall EXCEPT !.stored = cached.stored]
    /\ mgr' = [NoMgr EXCEPT !.n = mgr.n, !.done = mgr.done]
    /\ UNCHANGED <<fs, files, now, appVars, world, runVars, retryVars,
                   max_memory_size, translations>>

NextTranslate ==
    \/ \E x \in SingleTexts, l \in SourceLangs, t \in ManagerTargets,
          u \in BOOLEAN : Translate(x, l, t, u)
    \/ Lookup
    \/ \E a \in BOOLEAN : Probe(a)
    \/ \E r \in BOOLEAN : Invoke(r)
    \/ \E r \in ServiceSets, p \in Priorities : NewManager(r, p)

SpecTranslate == InitTranslate /\ [][NextTranslate]_vars

\* ------------------------------------------------------ translate_batch
MaxBatch == 3

BatchItems == {" ", "video", "b"}

\* the lists of at most MaxBatch texts
BatchTexts ==
    UNION {[1..n -> BatchItems] : n \in 0..MaxBatch}

\* a request list that takes every text of the call
RequestsAll(texts, uncached_indices) == texts

\* translation.py:658, 672-675: uncached_texts, the texts of the requests
Requests(texts, uncached_indices) ==
    [k \in 1..Len(uncached_indices) |-> texts[uncached_indices[k]]]

\* a merge that puts the k-th answer at position k
PlaceInOrder(results, uncached_indices, k, result) ==
    [results EXCEPT ![k] = result]

\* translation.py:688-690: the k-th answer goes where its text was
Place(results, uncached_indices, k, result) ==
    [results EXCEPT ![uncached_indices[k]] = result]

\* translation.py:405-428: what DeepL puts in the place of a text when the
\* request fails
FailedResult(text, source_lang, target_lang) ==
    TranslationResult(text, text, source_lang, target_lang, 0, "DeepL")

\* translation.py:369-430 (DeepL: one request for the list, which answers
\* every text or none) and 473-475 (Fallback: translate_single for each)
provider_batch(service, requests, source_lang, target_lang, fails) ==
    [k \in 1..Len(requests) |->
        IF fails THEN FailedResult(requests[k], source_lang, target_lang)
        ELSE translate_single(service, requests[k], source_lang,
                              target_lang)]

\* translation.py:609-630: translate_batch is called; an empty list returns
\* an empty list
TranslateBatch(texts, source_lang, target_lang, use_cache) ==
    /\ mgr.pc = "idle"
    /\ mgr.n < MaxCalls
    /\ mgr' = [Begun("batch") EXCEPT
                  !.texts = texts, !.source_lang = source_lang,
                  !.target_lang = target_lang, !.use_cache = use_cache,
                  !.pc = IF texts = <<>> THEN "idle" ELSE "scan",
                  !.i = IF texts = <<>> THEN 0 ELSE 1]
    /\ UNCHANGED <<fs, files, now, appVars, world, runVars, retryVars,
                   cacheVars, services, service_priority>>

\* results.append(entry) for the text at index i, then the next text, or,
\* after the last one, the uncached texts (translation.py:661), or return
Appended(m, entry, from) ==
    LET a == [m EXCEPT
                 !.results = Append(@, entry),
                 !.origin = Append(@, from),
                 !.uncached_indices = IF from = "none" THEN Append(@, m.i)
                                      ELSE @]
    IN  IF m.i < Len(m.texts) THEN [a EXCEPT !.pc = "scan", !.i = m.i + 1]
        ELSE IF a.uncached_indices = <<>> THEN [a EXCEPT !.pc = "idle"]
        ELSE [a EXCEPT !.pc = "select", !.j = NextRegistered(1)]

\* translation.py:633-646, 653-658: the text at index i is blank, or is to
\* be looked up, or (without use_cache) is uncached
BatchScan ==
    /\ mgr.pc = "scan"
    /\ mgr' = IF Blank(mgr.texts[mgr.i])
              THEN Appended(mgr, Passthrough(mgr.texts[mgr.i],
                                             mgr.source_lang,
                                             mgr.target_lang),
                            "passthrough")
              ELSE IF mgr.use_cache
              THEN [mgr EXCEPT !.pc = "bcache", !.j = NextRegistered(1)]
              ELSE Appended(mgr, NoResultCached, "none")
    /\ UNCHANGED <<fs, files, now, appVars, world, runVars, retryVars,
                   cacheVars, services, service_priority>>

\* translation.py:647-658: one round of the cache loop for the text at i
BatchLookup ==
    /\ mgr.pc = "bcache"
    /\ get(mgr.texts[mgr.i], mgr.source_lang, mgr.target_lang,
           service_priority[mgr.j])
    /\ LET m == [mgr EXCEPT !.gets = Append(@, service_priority[mgr.j])]
           j == NextRegistered(mgr.j + 1)
       IN  mgr' = IF cached'.tier # "miss"
                  THEN Appended(m, cached'.result, "cache")
                  ELSE IF j <= Len(service_priority)
                  THEN [m EXCEPT !.j = j]
                  ELSE Appended(m, NoResultCached, "none")
    /\ UNCHANGED <<fs, files, now, appVars, world, runVars, retryVars,
                   max_memory_size, translations, services,
                   service_priority>>

\* translation.py:694-703: no service is available
Unserved(m) ==
    [m EXCEPT
        !.pc = "idle",
        !.results = [x \in 1..Len(m.texts) |->
                        IF m.origin[x] = "none"
                        THEN TranslationResult(m.texts[x], m.texts[x],
                                               m.source_lang, m.target_lang,
                                               0, "fallback")
                        ELSE @[x]],
        !.origin = [x \in 1..Len(m.texts) |->
                       IF @[x] = "none" THEN "unserved" ELSE @[x]]]

\* translation.py:664-669: is_available of the service at index j
BatchSelect(available) ==
    /\ mgr.pc = "select"
    /\ service_priority[mgr.j] = "Fallback" => available
    /\ LET m == [mgr EXCEPT !.probes =
                     Append(@, [service |-> service_priority[mgr.j],
                                available |-> available])]
           j == NextRegistered(mgr.j + 1)
       IN  mgr' = IF available THEN [m EXCEPT !.pc = "bcall"]
                  ELSE IF j <= Len(service_priority) THEN [m EXCEPT !.j = j]
                  ELSE Unserved(m)
    /\ UNCHANGED <<fs, files, now, appVars, world, runVars, retryVars,
                   cacheVars, services, service_priority>>

\* translation.py:671-677: translate_batch of the service chosen
BatchCall(fails) ==
    /\ mgr.pc = "bcall"
    /\ service_priority[mgr.j] = "Fallback" => ~fails
    /\ LET name == service_priority[mgr.j]
           requests == Requests(mgr.texts, mgr.uncached_indices)
       IN  mgr' = [mgr EXCEPT
                      !.pc = "bstore", !.k = 1,
                      !.invoked = Append(@, [service |-> name,
                                             texts |-> requests,
                                             raised |-> fails]),
                      !.batch_results =
                          provider_batch(name, requests, mgr.source_lang,
                                         mgr.target_lang, fails)]
    /\ UNCHANGED <<fs, files, now, appVars, world, runVars, retryVars,
                   cacheVars, services, service_priority>>

\* translation.py:679-690: one round of the loop over batch_results
BatchStore ==
    /\ mgr.pc = "bstore"
    /\ LET answer == mgr.batch_results[mgr.k]
           result == [answer EXCEPT !.translated_text =
                         apply_terminology(@, mgr.source_lang,
                                           mgr.target_lang)]
       IN  /\ IF mgr.use_cache
              THEN store(result) /\ UNCHANGED max_memory_size
              ELSE UNCHANGED cacheVars
           /\ mgr' = [mgr EXCEPT
                         !.results = Place(@, mgr.uncached_indices, mgr.k,
                                           result),
                         !.origin = [@ EXCEPT
                                        ![mgr.uncached_indices[mgr.k]] =
                                            "provider"],
                         !.k = @ + 1,
                         !.pc = IF mgr.k < Len(mgr.batch_results)
                                THEN "bstore" ELSE "idle"]
    /\ UNCHANGED <<fs, files, now, appVars, world, runVars, retryVars,
                   services, service_priority>>

NextBatch ==
    \/ \E x \in BatchTexts, u \in BOOLEAN : TranslateBatch(x, "en", "zh", u)
    \/ BatchScan
    \/ BatchLookup
    \/ \E a \in BOOLEAN : BatchSelect(a)
    \/ \E f \in BOOLEAN : BatchCall(f)
    \/ BatchStore

SpecBatch == InitTranslate /\ [][NextBatch]_vars

\* ================================================================ claims
\* the run has returned
RunEnded == pc = "done"

\* stage s was in the completed list the run loaded at start
LoadedComplete(s) == InSeq(STAGES[s], hist.loaded.completed_stages)

\* the payload the loaded checkpoint holds for stage s
LoadedPayload(s) == DictGet(hist.loaded.stage_data, STAGES[s])

\* C1: a stage that is in the completed set of the checkpoint loaded at the
\* start of the run is never invoked in that run (neither its *_stage method
\* nor its collaborator), and the payload persisted for it is the input the
\* next stage is invoked with.
C1_IdempotentResume ==
    \A s \in 1..4 :
        LoadedComplete(s) =>
            /\ hist.entered[s] = 0
            /\ hist.called[s] = 0
            /\ (s < 4 /\ hist.entered[s + 1] > 0)
                  => hist.inputs[s + 1] = LoadedPayload(s)

\* C2: when a run has completed all four stages and reported completion,
\* the checkpoint of the job has been cleared: load_checkpoint for the same
\* unchanged video returns None.
C2_ClearedAfterSuccess ==
    (RunEnded /\ outcome = "completed") => IsNone(load_checkpoint(Video))

\* improved_processing.py:245-261: the translated texts of a segment list
TranslateAll(segs) ==
    [i \in 1..Len(segs) |->
        IF segs[i] # 0 THEN TranslatedText(segs[i]) ELSE segs[i]]

\* the final result of a run that executes all four stages itself
ScratchResult ==
    LET a == str(ExtractAudio(VideoInput(Video)))
        r == Transcribe(a)
        t == Val("dict", "trans", r.src, r.segs, TranslateAll(r.segs))
        p == str(SaveSubtitles(t))
    IN  FinalResult([NoLocals EXCEPT !.audio_path = a,
                                     !.recognition_result = r,
                                     !.translation_result = t,
                                     !.subtitle_path = p])

ResumeAtTranslation ==
    hist.loaded.completed_stages = <<STAGES[1], STAGES[2]>>

\* C3: a run that starts from a checkpoint with audio_extraction and
\* speech_recognition completed executes text_translation first, and the
\* final result it emits equals the final result of a from-scratch run with
\* the same video and the same stage functions.
C3_FullResumability ==
    /\ (hist.loaded.completed_stages = <<>> /\ outcome = "completed")
            => hist.final = ScratchResult
    /\ ResumeAtTranslation =>
          /\ hist.order # <<>> => hist.order[1] = 3
          /\ outcome = "completed" =>
                /\ hist.order = <<3, 4>>
                /\ hist.final = ScratchResult

C3_Witness ==
    /\ ResumeAtTranslation
    /\ RunEnded
    /\ outcome = "completed"
    /\ hist.order = <<3, 4>>
    /\ Len(hist.final.segments) = MaxSegments

\* C4: stage functions are started in the order of STAGES only: a stage is
\* started after every earlier stage was completed by this run or resumed
\* from the checkpoint, and no stage is started twice in a run.
C4_StageOrder ==
    /\ \A i, j \in 1..Len(hist.order) : i < j => hist.order[i] < hist.order[j]
    /\ \A s \in 1..4 :
          /\ hist.entered[s] <= 1
          /\ hist.entered[s] = 1 =>
                \A e \in 1..(s - 1) : e \in hist.finished \cup hist.resumed
    /\ \A s \in hist.finished : hist.entered[s] = 1

C4_Witness ==
    /\ RunEnded
    /\ hist.order = <<2, 3, 4>>
    /\ hist.resumed = {1}
    /\ hist.finished = {2, 3, 4}

\* C5: when a stage function raises an exception that is not a
\* cancellation, the run ends Failed with an error event, no later stage is
\* invoked, and the checkpoint is what it was when the stage was entered.
C5_AbortOnFailure ==
    (RunEnded /\ hist.raised # 0) =>
        /\ outcome = "failed"
        /\ events = <<"error">>
        /\ \A s \in 1..4 : s > hist.raised => hist.entered[s] = 0
        /\ hist.raised \notin hist.finished
        /\ files = hist.snap

\* C6: run_stage_with_timeout hands on the result of the stage function
\* when it finished before the deadline; when the deadline expires first it
\* raises an error that names the stage, no later stage is started, and the
\* run writes nothing to the checkpoint, whatever the abandoned call does.
C6_StageTimeout ==
    /\ [][(pc = "wait" /\ pc' # "wait") =>
            IF future.state = "done"
            THEN /\ hist'.timed_out = 0
                 /\ future.exc = "" =>
                       pc' = "post" /\ locals'.result = future.result
            ELSE /\ hist'.timed_out = stage
                 /\ pc' = "except"
                 /\ locals'.exc = "UserFriendly"
                 /\ locals'.msg = STAGES[stage] \o " timeout"]_vars
    /\ [](hist.timed_out # 0 /\ pc # "idle" =>
            /\ pc \in {"except", "cleanup", "done"}
            /\ events # <<"finished">>
            /\ \A s \in 1..4 : s > hist.timed_out => hist.entered[s] = 0
            /\ hist.timed_out \notin hist.finished
            /\ files = hist.snap)

C6_Witness ==
    /\ RunEnded
    /\ hist.timed_out = 2
    /\ hist.called[2] = 1
    /\ future.state = "done"
    /\ future.result # None

\* C7: when the flag is found set before a pending stage starts, the
\* function of that stage is not called, the run ends Cancelled, and the
\* checkpoint directory is what it was (no save and no clear by the run).
C7_CancelBeforeStage ==
    (hist.stopped_at # 0 /\ pc # "idle") =>
        /\ hist.called[hist.stopped_at] = 0
        /\ pc \in {"except", "cleanup", "done"}
        /\ pc \in {"cleanup", "done"} => outcome = "cancelled"
        /\ \A s \in 1..4 : s > hist.stopped_at => hist.entered[s] = 0
        /\ files = hist.snap

C7_Witness ==
    /\ RunEnded
    /\ hist.stopped_at = 3
    /\ hist.finished = {1, 2}
    /\ outcome = "cancelled"
    /\ DOMAIN files # {}

\* C8: a run during which cancel() is called before the last stage has
\* completed ends Cancelled, never Failed, whatever the interleaving of
\* cancel() with the orchestrator (runs in which a stage function raised on
\* its own account or a deadline expired are left aside).
C8_CleanStop ==
    (RunEnded /\ hist.cancel_early /\ hist.raised = 0 /\ hist.timed_out = 0)
        => outcome = "cancelled"

\* C9 as stated: once the flag is set no collaborator call (extract,
\* transcribe, translate, save) is begun in the run.
C9_NoCallAfterFlag == hist.late = 0

\* C9: each call is guarded by a poll of the flag.  After the flag is set at
\* most one more call begins in the run, the one whose poll had already
\* returned false, and no call begins once a poll has found the flag set.
C9_NoCallAfterPoll ==
    /\ hist.late <= 1
    /\ hist.after_seen = 0
    /\ hist.seen => cancel_requested

C9_Witness ==
    /\ RunEnded
    /\ hist.late = 1
    /\ hist.seen
    /\ hist.called[3] = 1
    /\ outcome = "cancelled"

\* the payloads of a checkpoint record
Payloads(cp) == {cp.stage_data[k] : k \in DOMAIN cp.stage_data}

\* what a read of the store handed back was saved under the fingerprint the
\* video had at the read
ReadIsolated ==
    ret.op \in {"load", "get_stage_data", "get_recovery_info"} =>
        IF IsNone(ret.cp)
        THEN ret.data = None /\ ret.info = NoRecovery
        ELSE /\ ret.cp.video_hash = ret.hash
             /\ \A d \in Payloads(ret.cp) : d.what = ret.hash
             /\ ret.data \in Payloads(ret.cp) \cup {None}
             /\ ret.op = "get_recovery_info" =>
                   /\ ret.info.video_path = ret.cp.video_path
                   /\ ret.info.completed_stages = ret.cp.completed_stages
                   /\ ret.info.timestamp = ret.cp.timestamp

\* a save or a clear for video A leaves the record of every video with a
\* different fingerprint as it is
WriteIsolated ==
    \A A, B \in Paths :
        (/\ ops' = ops + 1
         /\ ret'.op \in {"save", "clear"}
         /\ ret'.path = A
         /\ _get_video_hash(A) # _get_video_hash(B)
         /\ Exists(_get_checkpoint_file(B)))
        => /\ _get_checkpoint_file(B) \in DOMAIN files'
           /\ files'[_get_checkpoint_file(B)] = files[_get_checkpoint_file(B)]

\* C10: for videos A and B with different fingerprints, load_checkpoint,
\* get_stage_data and get_recovery_info for B return nothing that was saved
\* for A (what they return was saved under B's fingerprint), and
\* save_checkpoint and clear_checkpoint for A leave B's record unchanged.
C10_IdentityIsolation ==
    /\ [](ReadIsolated /\ \A d \in Payloads(ret.cp) \cup {ret.data} :
              (d # None /\ d.src # ret.path) => d.what = ret.hash)
    /\ [][WriteIsolated]_vars

C10_Witness ==
    /\ _get_video_hash("v") # _get_video_hash("v1")
    /\ Exists(_get_checkpoint_file("v"))
    /\ Exists(_get_checkpoint_file("v1"))
    /\ files[_get_checkpoint_file("v")].json = "ok"
    /\ ret.op = "get_stage_data"
    /\ ret.path = "v1"
    /\ ret.hash = _get_video_hash("v1")
    /\ ret.data = StorePayload("v1")

\* the step is the call op(video_path) of the store
StoreStep(op, video_path) ==
    /\ ops' = ops + 1
    /\ ret'.op = op
    /\ ret'.path = video_path

\* C11: two videos that differ in size or in modification time never have
\* the same identity (the string path ++ str(size) ++ str(mtime) that is
\* fed to the digest).
C11_DistinctIdentity ==
    \A p, q \in Paths :
        (/\ fs[p].exists
         /\ fs[q].exists
         /\ (fs[p].size # fs[q].size \/ fs[p].mtime # fs[q].mtime))
        => _get_video_hash(p) # _get_video_hash(q)

\* the record stored under the current identity of the video
StoredFor(video_path) == files[_get_checkpoint_file(video_path)]

C13_SelfHealingLoad ==
    [][\A p \in Paths :
          (/\ StoreStep("load", p)
           /\ Exists(_get_checkpoint_file(p))
           /\ StoredFor(p).json # "ok")
          => /\ IsNone(ret'.cp)
             /\ _get_checkpoint_file(p) \notin DOMAIN files']_vars

\* the run began with a checkpoint file that is not a usable record
FoundDamaged == hist.found \in {"bad", "shape", "hollow"}

\* C14: whatever the checkpoint file holds (not JSON, not a record, or a
\* record that lists a stage as completed without a payload for it), the run
\* treats the checkpoint as absent: it starts with audio_extraction and does
\* not fail on the checkpoint.
C14_CorruptionNotFatal ==
    (RunEnded /\ FoundDamaged) =>
        /\ hist.entered[1] = 1
        /\ ~(outcome = "failed" /\ hist.order = <<>>)

\* C15: save/load round trip: for every video path p, a load_checkpoint(p)
\* that immediately follows a save_checkpoint(p, stage, data) (same instant,
\* the video left as it was) returns a checkpoint, not None, that lists the
\* stage as completed and holds the saved data for it (compared in its
\* stored form, i.e. after serialize_for_json).
C15_SaveLoadRoundTrip ==
    [][(/\ ret.op = "save"
        /\ ret.at = now
        /\ StoreStep("load", ret.path)
        /\ fs' = fs)
       => /\ ~IsNone(ret'.cp)
          /\ InSeq(ret.stage, ret'.cp.completed_stages)
          /\ DictGet(ret'.cp.stage_data, ret.stage)
                = serialize_for_json(ret.data)]_vars

\* the stages a completed list names
StageSet(seq) == {seq[i] : i \in DOMAIN seq}

\* the record file of a video parses as a checkpoint record
RecordExists(video_path) ==
    /\ Exists(_get_checkpoint_file(video_path))
    /\ files[_get_checkpoint_file(video_path)].json = "ok"

Retryable(exception) ==
    /\ exception # "NonRetryableError"
    /\ IsInstance(exception, config.retry_on_exceptions)
    /\ config.should_retry # "None" => Predicate(exception)

\* C17: with max_attempts >= 1, a call whose every invocation raised a
\* retryable exception and that ended by raising has invoked the function
\* exactly max_attempts times and raises the last exception; a call whose
\* first invocation raised a non-retryable exception has invoked it exactly
\* once, has not slept, and raises that exception.
C17_RetryBound ==
    (retry.pc = "raised" /\ config.max_attempts >= 1) =>
        /\ (\A i \in 1..Len(retry.raised) : Retryable(retry.raised[i])) =>
              /\ retry.calls = config.max_attempts
              /\ Len(retry.raised) = config.max_attempts
              /\ retry.exc = retry.raised[config.max_attempts]
        /\ ~Retryable(retry.raised[1]) =>
              /\ retry.calls = 1
              /\ retry.slept = <<>>
              /\ retry.exc = retry.raised[1]

\* a call that used all of its three attempts on retryable exceptions
C17_Witness ==
    /\ retry.pc = "raised"
    /\ config.max_attempts = MaxAttempts
    /\ retry.calls = config.max_attempts
    /\ Len(retry.slept) = config.max_attempts - 1

\* C18: the delay slept after the k-th failed attempt is 0 for the immediate
\* strategy, base_delay * k for linear, and
\* min(base_delay * backoff_factor^(k-1), max_delay) for exponential.
C18_BackoffFormula ==
    \A k \in 1..Len(retry.slept) :
        /\ config.strategy = "immediate" => retry.slept[k] = 0
        /\ config.strategy = "linear" =>
              retry.slept[k] = config.base_delay * k
        /\ config.strategy = "exponential" =>
              retry.slept[k] = Min(config.base_delay
                                     * Pow(config.backoff_factor, k - 1),
                                   config.max_delay)

\* C19: a get with the four values of a stored result returns a result (from
\* the dict or, once the entry has left the dict, from the database) with
\* the translated text and the confidence of the result last stored for them.
C19_CacheRoundTrip ==
    [][(cached'.op = "get" /\ cached'.key \in DOMAIN cached.stored) =>
          /\ cached'.tier \in {"memory", "persistent"}
          /\ cached'.result.translated_text
                = cached.stored[cached'.key].translated_text
          /\ cached'.result.confidence
                = cached.stored[cached'.key].confidence]_vars

\* a get served by the database in a cache whose dict has overflowed
C19_Witness ==
    /\ cached.op = "get"
    /\ cached.tier = "persistent"
    /\ max_memory_size >= 1
    /\ Len(cached.recent) > max_memory_size
    /\ cached.result.confidence > 0

\* the key of keys that was accessed longest ago
LeastRecent(keys, recent) == Head(SelectSeq(recent, LAMBDA k : k \in keys))

\* C20: with a capacity of at least one, a store or a get hit of key k leaves
\* k in the dict; when the dict was full and k was not in it, exactly one
\* entry is evicted, the least recently accessed one, and otherwise none;
\* and the entries are then ranked for eviction by their last access, k last.
C20_LruEviction ==
    [][(/\ cached'.op \in {"get", "store"}
        /\ cached'.tier # "miss"
        /\ max_memory_size >= 1)
       => LET k == cached'.key
              before == DOMAIN _memory_cache
              after == DOMAIN _memory_cache'
          IN  /\ k \in after
              /\ before \ after =
                   IF k \notin before
                      /\ Cardinality(before) = max_memory_size
                   THEN {LeastRecent(before, cached.recent)}
                   ELSE {}
              /\ after = (before \cup {k}) \ (before \ after)
              /\ _access_order'
                   = SelectSeq(cached'.recent, LAMBDA x : x \in after)]_vars

\* a database hit has pushed one entry out of a dict of two
C20_Witness ==
    /\ cached.op = "get"
    /\ cached.tier = "persistent"
    /\ max_memory_size = MaxMemorySize
    /\ Cardinality(cached.evicted) = 1
    /\ Cardinality(DOMAIN _memory_cache) = max_memory_size

\* C21: after any store the number of rows of the database does not exceed
\* the configured maximum (the one size the cache is configured with,
\* max_memory_size, taken to be at least one).
C21_PersistentBound ==
    (cached.op = "store" /\ max_memory_size >= 1) =>
        Cardinality(DOMAIN translations) <= max_memory_size

\* s is the beginning of t
IsPrefix(s, t) == Len(s) <= Len(t) /\ \A i \in 1..Len(s) : s[i] = t[i]

\* the services of a sequence of probes or calls
ServicesOf(calls) == [i \in 1..Len(calls) |-> calls[i].service]

\* the name a service writes into its results
ResultName(service) == IF service = "Fallback" THEN "fallback" ELSE service

\* translate has returned
TranslateReturned == mgr.op = "translate" /\ mgr.pc = "idle"

\* C22: in a translate call the services are probed in priority order; a
\* service whose probe was false is never called in that call; when the
\* call returns a live result, the calls made are exactly the services whose
\* probe was true, every one but the last raised, and the result is the
\* last one's; and when the probe of every real service was false the
\* result is named "fallback" and its translated text is the original text.
C22_FailoverOrder ==
    mgr.op = "translate" =>
        /\ IsPrefix(ServicesOf(mgr.probes), RegisteredOrder)
        /\ \A j \in 1..Len(mgr.probes) :
              ~mgr.probes[j].available =>
                  \A i \in 1..Len(mgr.invoked) :
                      mgr.invoked[i].service # mgr.probes[j].service
        /\ (mgr.pc = "idle" /\ mgr.served = "provider") =>
              /\ ServicesOf(mgr.invoked) =
                    ServicesOf(SelectSeq(mgr.probes,
                                         LAMBDA p : p.available))
              /\ \A i \in 1..Len(mgr.invoked) :
                    mgr.invoked[i].raised <=> i < Len(mgr.invoked)
              /\ mgr.result.service =
                    ResultName(mgr.invoked[Len(mgr.invoked)].service)
              /\ (\A j \in 1..Len(mgr.probes) :
                     mgr.probes[j].service # "Fallback" =>
                         ~mgr.probes[j].available) =>
                    /\ mgr.result.service = "fallback"
                    /\ mgr.result.translated_text = mgr.text

\* C23: translate returns a result for the text it was given whatever the
\* cache holds and the services do; when no real service has answered (each
\* was skipped or raised) and the cache had nothing, the result has the
\* input text as its translation and confidence 0.
C23_NeverRaises ==
    TranslateReturned =>
        /\ mgr.result # NoResultCached
        /\ mgr.result.original_text = mgr.text
        /\ (/\ mgr.served \in {"provider", "emergency"}
            /\ \A i \in 1..Len(mgr.invoked) :
                  mgr.invoked[i].service # "Fallback" =>
                      mgr.invoked[i].raised) =>
              /\ mgr.result.translated_text = mgr.text
              /\ mgr.result.confidence = 0

\* C24: with use_cache, the cache is asked for the key of each registered service in
\* priority order and before any probe or call; the first entry found is
\* returned, whichever service it belongs to, and then no probe and no call
\* is made.
C24_FirstHitWins ==
    (mgr.op = "translate" /\ mgr.use_cache /\ ~(mgr.text \in {"", " "})) =>
        /\ IsPrefix(mgr.gets, RegisteredOrder)
        /\ (mgr.probes # <<>> \/ mgr.invoked # <<>>) =>
              mgr.gets = RegisteredOrder /\ mgr.served # "cache"
        /\ mgr.served = "cache" =>
              /\ mgr.probes = <<>>
              /\ mgr.invoked = <<>>
              /\ LET key(g) == _generate_key(mgr.text, mgr.source_lang,
                                             mgr.target_lang, g)
                     hit == mgr.gets[Len(mgr.gets)]
                 IN  /\ key(hit) \in DOMAIN cached.stored
                     /\ mgr.result = cached.stored[key(hit)]
                     /\ \A i \in 1..(Len(mgr.gets) - 1) :
                           key(mgr.gets[i]) \notin DOMAIN translations

\* a hit on the entry of the second service while the first one, registered
\* and always available, was never tried
C24_Witness ==
    /\ TranslateReturned
    /\ mgr.served = "cache"
    /\ mgr.gets = <<"Fallback", "DeepL">>
    /\ mgr.result.service = "DeepL"

\* an earlier translate call that a real service, still registered, has
\* answered and stored for the text and languages of the present call
Answered(d) ==
    /\ d \in mgr.prior
    /\ d.service \in services
    /\ d.text = mgr.text
    /\ d.source_lang = mgr.source_lang
    /\ d.target_lang = mgr.target_lang

\* C26: a translate call with use_cache for a text, source language and target language
\* that a real service has answered before calls no service and returns the
\* stored result from the cache.
C26_NoRedundantCall ==
    \A d \in mgr.prior :
        (mgr.op = "translate" /\ mgr.use_cache /\ Answered(d)) =>
            /\ mgr.invoked = <<>>
            /\ mgr.pc = "idle" =>
                  mgr.served = "cache" /\ mgr.result = d.result

\* translate_batch has returned
BatchReturned == mgr.op = "batch" /\ mgr.pc = "idle"

ToSend ==
    {x \in 1..Len(mgr.texts) :
        /\ ~(mgr.texts[x] \in {"", " "})
        /\ mgr.use_cache =>
              \A g \in services :
                  _generate_key(mgr.texts[x], mgr.source_lang,
                                mgr.target_lang, g)
                      \notin DOMAIN translations}

\* the texts at a set of positions, in the order of the list
TextsAt(texts, positions) ==
    LET keep == SelectSeq([x \in 1..Len(texts) |-> x],
                          LAMBDA x : x \in positions)
    IN  [k \in 1..Len(keep) |-> texts[keep[k]]]

\* C27: translate_batch makes at most one request; when the request has
\* been made and nothing of it is stored yet, its texts are exactly the
\* texts that are not blank and have no cache entry, in the order of the
\* list; blank texts and texts answered from the cache are not in it; and it
\* went to the first registered service in priority order whose probe was
\* true, every service before it having been probed false.
C27_BatchRequest ==
    mgr.op = "batch" =>
        /\ Len(mgr.invoked) <= 1
        /\ \A c \in 1..Len(mgr.invoked) :
              /\ mgr.invoked[c].texts =
                    TextsAt(mgr.texts,
                            {x \in 1..Len(mgr.texts) :
                                mgr.origin[x] \in {"none", "provider"}})
              /\ \A x \in 1..Len(mgr.texts) :
                    mgr.texts[x] \in {"", " "} =>
                        mgr.origin[x] = "passthrough"
              /\ (mgr.pc = "bstore" /\ mgr.k = 1) =>
                    mgr.invoked[c].texts = TextsAt(mgr.texts, ToSend)
              /\ IsPrefix(ServicesOf(mgr.probes), RegisteredOrder)
              /\ mgr.invoked[c].service =
                    mgr.probes[Len(mgr.probes)].service
              /\ \A j \in 1..Len(mgr.probes) :
                    mgr.probes[j].available <=> j = Len(mgr.probes)

\* a request for one text of three has gone to the second registered
\* service: the first was probed false, one text was blank and one cached
C27_Witness ==
    /\ mgr.op = "batch"
    /\ mgr.pc = "bstore"
    /\ Len(mgr.probes) = 2
    /\ Len(mgr.invoked[1].texts) = 1
    /\ \E x, y \in 1..Len(mgr.texts) :
          mgr.origin[x] = "cache" /\ mgr.origin[y] = "passthrough"

\* C28: a translate call with an empty or whitespace-only text returns at
\* once a result whose translated text is the input and whose confidence is
\* 1.0; the cache is neither read nor written and no service is probed or
\* called.
C28_BlankInput ==
    [][(/\ mgr'.op = "translate"
        /\ mgr'.n = mgr.n + 1
        /\ mgr'.text \in {"", " "}) =>
           /\ mgr'.pc = "idle"
           /\ mgr'.result.original_text = mgr'.text
           /\ mgr'.result.translated_text = mgr'.text
           /\ mgr'.result.confidence = 100
           /\ mgr'.gets = <<>>
           /\ mgr'.probes = <<>>
           /\ mgr'.invoked = <<>>
           /\ UNCHANGED cacheVars]_vars

\* a whitespace-only text has been passed through while the cache holds an
\* entry
C28_Witness ==
    /\ TranslateReturned
    /\ mgr.text = " "
    /\ mgr.served = "passthrough"
    /\ translations # [k \in {} |-> NoResultCached]

\* the stages of the fixed order a completed list does not name
Pending(completed) == {i \in 1..Len(STAGES) : ~InSeq(STAGES[i], completed)}

AfterClear == hist.found = "restart"

Expired(video_path) ==
    LET f == _get_checkpoint_file(video_path) IN
    /\ Exists(f)
    /\ files[f].json = "ok"
    /\ fs[video_path].exists
    /\ files[f].cp.video_hash = _get_video_hash(video_path)
    /\ now - files[f].cp.timestamp > CheckpointMaxAge

\* C37: when the record of a video has expired, a save_checkpoint of a
\* stage leaves a loadable checkpoint whose completed stages and payloads
\* are those of that stage alone: nothing of the expired record comes back
\* under the new timestamp.
C37_ExpiredNotRevived ==
    [][\A p \in Paths :
          (Expired(p) /\ StoreStep("save", p)) =>
              /\ ~IsNone(load_checkpoint(p))'
              /\ load_checkpoint(p)'.completed_stages = <<ret'.stage>>
              /\ DOMAIN load_checkpoint(p)'.stage_data = {ret'.stage}]_vars

\* C32: whenever the run reports a stage it has executed as complete, the
\* checkpoint on disk at that moment lists the stage as completed with the
\* payload the stage returned; a stage whose save failed is not reported.
C32_PersistBeforeReport ==
    [][hist'.finished \ hist.finished # {} =>
          LET f == _get_checkpoint_file(Video) IN
          /\ f \in DOMAIN files'
          /\ files'[f].json = "ok"
          /\ InSeq(STAGES[stage], files'[f].cp.completed_stages)
          /\ DictGet(files'[f].cp.stage_data, STAGES[stage]) =
                serialize_for_json(StageOutput(stage, locals.result))]_vars

\* C34: whatever runs, completions, failed or interrupted saves,
\* cancellations and restarts came before, the completed list of a
\* checkpoint that load_checkpoint returns has no stage twice, is a
\* beginning of the fixed stage order, and has a payload for each stage.
C34_CheckpointShape ==
    LET cp == load_checkpoint(Video) IN
    ~IsNone(cp) =>
        /\ \A i, j \in 1..Len(cp.completed_stages) :
              cp.completed_stages[i] = cp.completed_stages[j] => i = j
        /\ IsPrefix(cp.completed_stages, STAGES)
        /\ \A i \in 1..Len(cp.completed_stages) :
              DictGet(cp.stage_data, cp.completed_stages[i]) # None

\* C36: a run that has returned has emitted exactly one terminal event,
\* finished or error, and finished only when each of the four stages was
\* completed by the run or taken from the checkpoint.
C36_OneTerminalEvent ==
    RunEnded =>
        /\ Len(events) = 1
        /\ events[1] \in {"finished", "error"}
        /\ events = <<"finished">> =>
              hist.finished \cup hist.resumed = 1..4

\* C38: after a stage has timed out the run emits its error and returns:
\* its cleanup does not wait for the abandoned call, so it can be taken
\* whatever that call does.
C38_TerminationAfterTimeout ==
    /\ (hist.timed_out # 0 /\ pc = "cleanup") => ENABLED Cleanup
    /\ (hist.timed_out # 0 /\ RunEnded) => events = <<"error">>

\* C39: run_stage_with_timeout raises the timeout error of a stage only
\* when the deadline expired with the call unfinished; an exception the
\* stage function raised, a TimeoutError too, goes on as that exception.
C39_TimeoutOnlyOnDeadline ==
    [][(pc = "wait" /\ pc' = "except") =>
          IF future.state = "done"
          THEN locals'.exc = future.exc
          ELSE /\ locals'.exc = "UserFriendly"
               /\ locals'.msg = STAGES[stage] \o " timeout"]_vars

\* the providers TranslationManager.__init__ knows (translation.py:503)
KnownProviders == {"DeepL", "OpenAI", "Google", "Fallback"}

\* in the call that has returned, the service was skipped (probe false) or
\* its call raised
SkippedOrRaised(service) ==
    \/ \E j \in 1..Len(mgr.probes) :
          mgr.probes[j].service = service /\ ~mgr.probes[j].available
    \/ \E i \in 1..Len(mgr.invoked) :
          mgr.invoked[i].service = service /\ mgr.invoked[i].raised

\* translate has returned the pass-through result of the last-resort service
FallbackServed ==
    /\ TranslateReturned
    /\ mgr.served = "provider"
    /\ mgr.result.service = "fallback"

\* C33: the priority order is a permutation of the known providers with the
\* last-resort provider after every real one, and translate returns the
\* last-resort provider's pass-through result only when, in that call, every
\* other registered provider was skipped (probe false) or raised.
C33_LastResortLast ==
    /\ Len(service_priority) = Cardinality(KnownProviders)
    /\ {service_priority[i] : i \in 1..Len(service_priority)} = KnownProviders
    /\ service_priority[Len(service_priority)] = "Fallback"
    /\ FallbackServed =>
          \A s \in services \ {"Fallback"} : SkippedOrRaised(s)

\* what the manager makes of a call of the service that succeeded
\* (translation.py:572-581, 677-682): the service's answer with the
\* terminology applied
Produced(service, text, source_lang, target_lang) ==
    LET answer == translate_single(service, text, source_lang, target_lang)
    IN  [answer EXCEPT !.translated_text =
            apply_terminology(@, source_lang, target_lang)]

\* the result is one its service produces for its text when the call succeeds
ProducedByItsService(result) ==
    \E l \in SourceLangs, t \in ManagerTargets :
        result = Produced(result.service, result.original_text, l, t)

\* C35: every row the cache holds under the key of a real service is a
\* result that service produced in a call that succeeded, and no translate
\* or translate_batch call returns as a cache hit a result that was made in
\* the place of a failed call of a real service.
C35_NoCachePoisoning ==
    /\ \A key \in DOMAIN translations :
          translations[key].service # "fallback" =>
              ProducedByItsService(FromRow(translations[key]))
    /\ (TranslateReturned /\ mgr.served = "cache"
           /\ mgr.result.service # "fallback") =>
          ProducedByItsService(mgr.result)
    /\ mgr.op = "batch" =>
          \A x \in 1..Len(mgr.results) :
              (mgr.origin[x] = "cache"
                  /\ mgr.results[x].service # "fallback") =>
                  ProducedByItsService(mgr.results[x])

\* C40: after any sequence of get and store calls the dict holds at most
\* max_memory_size entries, the access-order list holds exactly the keys of
\* the dict, each once, and every entry of the dict is the result last
\* stored under its key.
C40_MemoryTier ==
    /\ Cardinality(DOMAIN _memory_cache) <= max_memory_size
    /\ {_access_order[i] : i \in 1..Len(_access_order)} = DOMAIN _memory_cache
    /\ Len(_access_order) = Cardinality(DOMAIN _memory_cache)
    /\ \A k \in DOMAIN _memory_cache :
          /\ k \in DOMAIN cached.stored
          /\ _memory_cache[k] = cached.stored[k]

\* a store into a full dict of the largest size has evicted an entry, after
\* more keys were accessed than the dict can hold
C40_Witness ==
    /\ cached.op = "store"
    /\ max_memory_size = MaxMemorySize
    /\ cached.evicted # {}
    /\ Cardinality(DOMAIN _memory_cache) = max_memory_size
    /\ Len(cached.recent) > max_memory_size

\* json.load reads the file: it is JSON text
Parseable(file) == file.json \notin {"bad", "undecodable"}

\* save_checkpoint and load_checkpoint work for the video: a save leaves a
\* record that a load at once returns with the stage in it
SaveLoadWorks(video_path) ==
    \A s \in StoreStages :
        LET f == _get_checkpoint_file(video_path)
            after == save_checkpoint(video_path, s, StorePayload(video_path),
                                     DefaultJob)
        IN  /\ f \in DOMAIN after
            /\ after[f].json = "ok"
            /\ InSeq(s, after[f].cp.completed_stages)

\* C31: the sweep a new CheckpointManager makes removes every file of the
\* directory that cannot be parsed, leaves every file that can be parsed as
\* it was, and after it save_checkpoint and load_checkpoint work for every
\* video.
C31_StartupSweep ==
    [][(ops' = ops + 1 /\ ret'.op = "sweep") =>
          /\ \A n \in DOMAIN files :
                IF Parseable(files[n])
                THEN n \in DOMAIN files' /\ files'[n] = files[n]
                ELSE n \notin DOMAIN files'
          /\ DOMAIN files' \subseteq DOMAIN files
          /\ \A p \in Paths : SaveLoadWorks(p)']_vars
====
